---- MODULE Spec2Model ----
(***************************************************************************)
(* A model of the coroutine machinery of the workshop exercises: the       *)
(* result cell storage<T>, the frame owner promise_ptr, task<T>,           *)
(* async<Func>, synchronized_task and sync_await, together with the        *)
(* example coroutines func1, func2, func3, example and the test harness    *)
(* of exercise01_solution_generalized.cpp; the eager task and the          *)
(* generator of exercise11_solution.cpp, the task of                       *)
(* exercise07_solution.cpp, the generator with next() and value() of       *)
(* part_005, task::get() and the start()-based test harness of            *)
(* exercise08_solution.cpp, zip of exercise12_solution.cpp, the eager task *)
(* of exercise03_solution.cpp and the std::future coroutine of             *)
(* exercise01_solution.cpp.                                                *)
(*                                                                         *)
(* Frames, async objects, sync objects, exception objects and threads are  *)
(* numbered from 1 in creation order; 0 is the null pointer, the           *)
(* noop_coroutine handle, "no exception in flight".                        *)
(***************************************************************************)
EXTENDS Integers, Sequences, FiniteSets, TLC

VARIABLES
  frames,   \* coroutine frames: promise, locals, suspension point
  asyncs,   \* async<Func> objects (temporaries of the awaiting frame)
  threads,  \* threads[1] is main, the others are the detached jthreads
  syncs,    \* the `sync` objects of sync_await (binary semaphore)
  excs,     \* exception objects ever thrown
  out,      \* what was written to std::cout, in order
  mainv,    \* locals of main / test / sync_await
  ub        \* undefined behaviour met so far (set of event names)

vars == <<frames, asyncs, threads, syncs, excs, out, mainv, ub>>

(* Number of test(...) calls main performs. *)
MaxTests == 2

(***************************************************************************)
(* storage<T>: std::variant<std::monostate, std::exception_ptr, T>         *)
(***************************************************************************)
Monostate == [tag |-> "monostate", val |-> 0]

(* Mutation: the value is dropped and a default one stored. *)
set_value_default(cell, v) == [tag |-> "value", val |-> 0]

(* storage_base<T>::set_value: result_.emplace<T>(value) *)
set_value(cell, v) == [tag |-> "value", val |-> v]

(* Mutation: the reference specialization stores nothing. *)
set_value_ref_lost(cell, p) == cell

(* storage_base<T&>::set_value keeps the address of the referent. *)
set_value_ref(cell, p) == [tag |-> "pointer", val |-> p]

(* Mutation: the exception is not stored. *)
set_exception_lost(cell, e) == cell

(* storage::set_exception: result_.emplace<std::exception_ptr>(ptr) *)
set_exception(cell, e) == [tag |-> "exception", val |-> e]

(* Mutation: a stored exception is never rethrown. *)
check_and_rethrow_never(cell) == 0

(* The exception rethrown, or 0 when the cell holds no exception. *)
check_and_rethrow(cell) == IF cell.tag = "exception" THEN cell.val ELSE 0

(* storage_base<...>::get: what reading the cell does.                     *)
(*   "rethrow": the stored exception val is rethrown                       *)
(*   "void"   : storage_base<void>::get returns normally                   *)
(*   "value"  : std::get<T> yields val                                     *)
(*   "pointer": std::get<T*> yields the address val                        *)
(*   "bad_variant_access": std::get on a cell of another alternative       *)
get(cell, isVoid) ==
  IF check_and_rethrow(cell) # 0
    THEN [kind |-> "rethrow", val |-> check_and_rethrow(cell)]
  ELSE IF isVoid
    THEN [kind |-> "void", val |-> 0]
  ELSE IF cell.tag \in {"value", "pointer"}
    THEN [kind |-> cell.tag, val |-> cell.val]
  ELSE [kind |-> "bad_variant_access", val |-> 0]

(* Mutation: reading through an lvalue moves the result out and leaves *)
(* the cell empty.                                                     *)
after_get_lvalue_empties(cell) == Monostate

(* The cell after storage_base<T>::get() const& (and the const get() of    *)
(* the T& and void specializations): a const member function, the variant  *)
(* is only read; check_and_rethrow copies the exception_ptr.               *)
after_get_lvalue(cell) == cell

(* Mutation: reading through an rvalue empties the cell. *)
after_get_reset(cell) == Monostate

(* The cell after storage_base<T>::get() &&: std::get<T>(std::move(result_)) *)
(* leaves the variant holding the (moved-from) T; for int that is a copy.  *)
after_get(cell) == cell

(***************************************************************************)
(* The coroutines of the program, as instruction lists.                    *)
(***************************************************************************)
Ins(op, f, bind, text, e) ==
  [op |-> op, f |-> f, bind |-> bind, text |-> text, e |-> e]

func1 ==
  << Ins("await_async", "func1_lambda1", TRUE, "", ""),
     Ins("await_async", "func1_lambda2", FALSE, "", ""),
     Ins("co_return", "", FALSE, "", "result + 23") >>

(* Mutation: func2 writes its output before it awaits func1(). *)
func2_output_first ==
  << Ins("print", "", FALSE, "Result of func1: ", "result"),
     Ins("await_task", "func1", TRUE, "", ""),
     Ins("co_return", "", FALSE, "", "void") >>

func2 ==
  << Ins("await_task", "func1", TRUE, "", ""),
     Ins("print", "", FALSE, "Result of func1: ", "result"),
     Ins("co_return", "", FALSE, "", "void") >>

func3 ==
  << Ins("await_async", "func3_lambda", TRUE, "", ""),
     Ins("print", "", FALSE, "I will never tell you that the result is: ", "result"),
     Ins("co_return", "", FALSE, "", "42") >>

example ==
  << Ins("await_task", "func2", FALSE, "", ""),
     Ins("await_task", "func3", FALSE, "", ""),
     Ins("co_return", "", FALSE, "", "void") >>

(* co_return co_await std::forward<A>(awaitable); *)
make_synchronized_task ==
  << Ins("await_lvalue", "", TRUE, "", ""),
     Ins("co_return", "", FALSE, "", "awaited") >>

(* The eager task<T> chain of exercise11_solution.cpp (second program) *)
func1_eager ==
  << Ins("co_return", "", FALSE, "", "42") >>

func2_eager ==
  << Ins("await_task", "func1_eager", TRUE, "", ""),
     Ins("print", "", FALSE, "Result of func1: ", "result"),
     Ins("co_return", "", FALSE, "", "result + 23") >>

func3_eager ==
  << Ins("await_task", "func2_eager", TRUE, "", ""),
     Ins("print", "", FALSE, "Result of func2: ", "result"),
     Ins("co_return", "", FALSE, "", "void") >>

run ==
  << Ins("await_task", "func3_eager", FALSE, "", ""),
     Ins("co_return", "", FALSE, "", "void") >>

(* run of exercise07_solution.cpp: co_await func3(); *)
run_ex07 ==
  << Ins("await_task", "func3_ex07", FALSE, "", ""),
     Ins("co_return", "", FALSE, "", "void") >>

(* The generators of exercise11_solution.cpp (first program).  The loops   *)
(* of iota and fibonacci are closed by NextPc.                             *)
iota ==
  << Ins("co_yield", "", FALSE, "", "start++") >>

fibonacci ==
  << Ins("co_yield", "", FALSE, "", "b"),
     Ins("exchange", "", FALSE, "", "a + b") >>

broken ==
  << Ins("co_yield", "", FALSE, "", "1"),
     Ins("throw", "", FALSE, "Some error\n", ""),
     Ins("co_yield", "", FALSE, "", "2") >>

(* simple of part_005: co_yield 1; co_yield 2; and the end of the body *)
simple ==
  << Ins("co_yield", "", FALSE, "", "1"),
     Ins("co_yield", "", FALSE, "", "2"),
     Ins("end_of_body", "", FALSE, "", "") >>

(* Generator bodies that end: k times co_yield, of the values 1 .. k, and   *)
(* then the end of the body.  FiniteNames[k + 1] names the one of k yields. *)
FiniteNames ==
  << "finite0", "finite1", "finite2", "finite3", "finite4", "finite5",
     "finite6", "finite7" >>

FiniteFns == {FiniteNames[i] : i \in DOMAIN FiniteNames}

FiniteCount(fn) == (CHOOSE i \in DOMAIN FiniteNames : FiniteNames[i] = fn) - 1

finite(k) ==
  [i \in 1 .. k + 1 |->
     IF i <= k THEN Ins("co_yield", "", FALSE, "", "pc")
     ELSE Ins("end_of_body", "", FALSE, "", "")]

(* Bodies for the eager task of exercise03_solution.cpp: n output          *)
(* statements and then co_return 42 (ReturnNames[n + 1]) or a throw        *)
(* (ThrowNames[n + 1]).                                                    *)
ReturnNames == << "returns0", "returns1", "returns2", "returns3", "returns4" >>

ThrowNames == << "throws0", "throws1", "throws2", "throws3", "throws4" >>

Index(names, fn) == CHOOSE i \in DOMAIN names : names[i] = fn

Names(names) == {names[i] : i \in DOMAIN names}

eager_body(n, end) ==
  [i \in 1 .. n + 1 |->
     IF i <= n THEN Ins("print", "", FALSE, "statement", "")
     ELSE IF end = "throw" THEN Ins("throw", "", FALSE, "Some error", "")
     ELSE Ins("co_return", "", FALSE, "", "42")]

Body(fn) ==
  CASE fn = "func1" -> func1
    [] fn \in Names(ReturnNames) -> eager_body(Index(ReturnNames, fn) - 1, "co_return")
    [] fn \in Names(ThrowNames) -> eager_body(Index(ThrowNames, fn) - 1, "throw")
    [] fn \in FiniteFns -> finite(FiniteCount(fn))
    [] fn = "simple" -> simple
    [] fn = "iota" -> iota
    [] fn = "fibonacci" -> fibonacci
    [] fn = "broken" -> broken
    [] fn = "func1_eager" -> func1_eager
    [] fn = "func2_eager" -> func2_eager
    [] fn = "func3_eager" -> func3_eager
    [] fn = "run" -> run
    [] fn = "run_ex07" -> run_ex07
    [] fn = "func2" -> func2
    [] fn = "func3" -> func3
    [] fn = "example" -> example
    [] fn = "make_synchronized_task" -> make_synchronized_task

(* task<void> or task<int> *)
IsVoid(fn) == fn \in {"func2", "example", "func3_eager", "run", "run_ex07"}

(* Which coroutine type the function returns: the lazy task of             *)
(* exercise01_solution_generalized.cpp ("task"), its synchronized_task     *)
(* ("sync"), the eager task of exercise11_solution.cpp ("eager"), or its   *)
(* generator ("generator"), or the task of exercise07_solution.cpp         *)
(* ("task_ex07": created suspended, plain suspend_always at the end).     *)
Kind(fn) ==
  IF fn \in {"func1_eager", "func2_eager", "func3_eager", "run"}
             \cup Names(ReturnNames) \cup Names(ThrowNames) THEN "eager"
  ELSE IF fn \in {"iota", "fibonacci", "broken", "simple"} \cup FiniteFns
    THEN "generator"
  ELSE IF fn \in {"run_ex07", "func3_ex07"} THEN "task_ex07"
  ELSE IF fn = "make_synchronized_task" THEN "sync"
  ELSE "task"

(* The programs: each is the main() of one source file. *)
Programs == {"exercise01_solution_generalized", "exercise11_solution_task",
             "exercise11_solution_generator", "exercise07_solution", "part_005"}

(* Where main starts *)
Entry(prog) ==
  CASE prog \in {"exercise11_solution_task", "exercise07_solution"} -> "call_run"
    [] prog = "exercise11_solution_generator" -> "gen_call"
    [] prog = "part_005" -> "simple_call"
    [] OTHER -> "call_test"

(* iota() | std::views::take(10) *)
TakeCount == 10

(* std::views::counted(gen.begin(), 10) *)
CountedCount == 10

(* The coroutine functions test() is instantiated with. *)
TestFns == {"example", "func3", "func1", "func2"}

(***************************************************************************)
(* The callables handed to async, as statement lists.                      *)
(***************************************************************************)
Stmt(op, text, v) == [op |-> op, text |-> text, v |-> v]

func1_lambda1 == << Stmt("return", "", 42) >>

func1_lambda2 == << Stmt("print_result", "Result: ", 0), Stmt("return_void", "", 0) >>

func3_lambda ==
  << Stmt("print", "About to throw an exception", 0),
     Stmt("throw", "Some error", 0),
     Stmt("print", "This will never be printed", 0),
     Stmt("return", "", 42) >>

Callable(c) ==
  CASE c = "func1_lambda1" -> func1_lambda1
    [] c = "func1_lambda2" -> func1_lambda2
    [] c = "func3_lambda" -> func3_lambda

(* std::is_void_v<return_type> *)
CallableIsVoid(c) == c = "func1_lambda2"

(***************************************************************************)
(* Frames                                                                  *)
(***************************************************************************)
(* Mutation: the coroutine does not suspend initially. *)
initial_suspend_never(kind) == "never"

(* Mutation: every coroutine suspends initially. *)
initial_suspend_always(kind) == "always"

(* task::promise_type::initial_suspend and                                 *)
(* synchronized_task::promise_type::initial_suspend: std::suspend_always;  *)
(* the eager task of exercise11_solution.cpp: std::suspend_never           *)
initial_suspend(kind) == IF kind = "eager" THEN "never" ELSE "always"

(* The frame a call of a coroutine function creates. *)
NewFrame(fn, kind, arg, isVoid) ==
  [ fn |-> fn, kind |-> kind, void |-> isVoid,
    st |-> IF initial_suspend(kind) = "always" THEN "created" ELSE "running",
    phase |-> IF initial_suspend(kind) = "always" THEN "init" ELSE "exec",
    pc |-> 1,
    result |-> 0, resultSet |-> FALSE,       \* the local `result`
    cell |-> Monostate, writes |-> 0,        \* promise: storage<T>
    completed |-> "",                        \* which promise hook ended the body
    continuation |-> 0,                      \* promise: continuation (0 = noop)
    sync_ |-> 0,                             \* promise: sync_ (synchronized_task)
    arg |-> arg,                             \* the parameter `awaitable`
    tmp |-> 0,                               \* temporary task of the current co_await
    aw |-> 0,                                \* temporary async of the current co_await
    value |-> 0,                             \* generator promise: value
    start |-> 0, a |-> 0, b |-> 1,           \* locals of iota and fibonacci
    thr |-> 0,                               \* exception being thrown in the body
    destroyed |-> 0,                         \* handle.destroy() calls
    resumes |-> 0,                           \* handle.resume() calls
    started |-> 0,                           \* start() calls on the owning task
    stmts |-> 0,                             \* body steps executed
    yielded |-> <<>> ]                       \* the values co_yielded so far

(* The stack of resume() calls of a thread after it created frame id. *)
AfterCreate(stack, id, kind) ==
  IF initial_suspend(kind) = "always" THEN stack ELSE Append(stack, id)

(* std::coroutine_handle::resume on frame f *)
resume(fs, f) ==
  [fs EXCEPT ![f].st = "running",
             ![f].phase = IF @ = "init" THEN "exec"
                          ELSE IF @ = "await" THEN "resumed" ELSE @,
             ![f].resumes = @ + 1]

(* resume() of a frame that is not suspended is undefined *)
ResumeUB(fs, f) ==
  IF f = 0 \/ fs[f].st \in {"created", "suspended"} THEN {} ELSE {"resume"}

(* The frames destroyed with frame f: f and the temporary tasks its        *)
(* suspended body still holds.                                             *)
RECURSIVE Tree(_, _)
Tree(fs, f) ==
  IF f = 0 \/ fs[f].st = "destroyed" THEN {} ELSE {f} \cup Tree(fs, fs[f].tmp)

(* coro_deleter: handle.destroy() when the handle is not null *)
coro_deleter(fs, f) ==
  [g \in DOMAIN fs |->
     IF g = f \/ g \in Tree(fs, f)
       THEN [fs[g] EXCEPT !.st = "destroyed", !.destroyed = @ + 1]
       ELSE fs[g]]

(* ~promise_ptr (std::unique_ptr<Promise, coro_deleter>): the deleter runs *)
(* when the pointer is not null.                                           *)
promise_ptr_dtor(fs, p) == IF p # 0 THEN coro_deleter(fs, p) ELSE fs

(* The async temporaries that die with frame f *)
DestroyAsyncs(as, fs, f) ==
  [a \in DOMAIN as |->
     IF as[a].owner \in Tree(fs, f) THEN [as[a] EXCEPT !.alive = FALSE] ELSE as[a]]

(* Access to a frame that was destroyed is undefined *)
FrameUB(fs, f, what) ==
  IF f # 0 /\ fs[f].st = "destroyed" THEN {what} ELSE {}

Top(th) == threads[th].stack[Len(threads[th].stack)]

Pop(stack) == SubSeq(stack, 1, Len(stack) - 1)

ReplaceTop(stack, f) == Append(Pop(stack), f)

(* Thread th is executing the body of frame f. *)
InBody(th, f) ==
  /\ threads[th].stack # <<>>
  /\ threads[th].susp = ""
  /\ f = Top(th)
  /\ frames[f].st = "running"

Instr(f) == Body(frames[f].fn)[frames[f].pc]

NewThread(kind, pc, a, h) ==
  [ kind |-> kind, pc |-> pc, stack |-> <<>>, susp |-> "",
    async |-> a, handle |-> h, ip |-> 1, ret |-> 0, exc |-> 0,
    lsync |-> 0, lcont |-> 0 ]

Init ==
  /\ frames = <<>>
  /\ asyncs = <<>>
  /\ syncs = <<>>
  /\ excs = <<>>
  /\ out = <<>>
  /\ ub = {}
  /\ \E prog \in Programs :
       /\ threads = << NewThread("main", Entry(prog), 0, 0) >>
       /\ mainv = [prog |-> prog, tests |-> <<>>, t |-> 0, sync_task |-> 0,
                   work_done |-> 0, ref |-> 0, exc |-> 0,
                   loop |-> IF prog = "exercise11_solution_generator" THEN 1 ELSE 0,
                   own |-> [temp |-> 0, base |-> 0, view |-> 0, gen |-> 0,
                            range |-> 0],
                   it |-> 0, n |-> 0,
                   visited |-> <<>>]


(* What is left of a resume() call once nothing is left to resume: on the  *)
(* calling thread the call still has to return to main's code; on a worker *)
(* handle.resume() is the last statement of the lambda `work`, so the      *)
(* thread is over.                                                         *)
Returning(t) == IF t.kind = "worker" THEN "" ELSE "return"

(* Thread th is executing its own code, outside any resume() call. *)
ThreadCode(th) == threads[th].stack = <<>> /\ threads[th].susp = ""

(***************************************************************************)
(* main / test / sync_await (the calling thread)                           *)
(***************************************************************************)
(* test(fn()): the argument is a call of coroutine function fn; the        *)
(* parameter t owns the new frame.                                         *)
CallTest(fn) ==
  /\ ThreadCode(1)
  /\ threads[1].pc = "call_test"
  /\ Len(mainv.tests) < MaxTests
  /\ frames' = Append(frames, NewFrame(fn, "task", 0, IsVoid(fn)))
  /\ mainv' = [mainv EXCEPT !.tests = Append(@, fn), !.t = Len(frames) + 1,
                            !.ref = 0, !.exc = 0]
  /\ threads' = [threads EXCEPT ![1].pc = "make_synchronized_task",
                                ![1].stack = AfterCreate(@, Len(frames) + 1, "task")]
  /\ UNCHANGED <<asyncs, syncs, excs, out, ub>>

(* sync_await: auto sync_task = make_synchronized_task<sync>(awaitable);   *)
(*             sync work_done;                                             *)
(* For a non-void task std::cout << "Result: " is evaluated first.         *)
MakeSync ==
  /\ ThreadCode(1)
  /\ threads[1].pc = "make_synchronized_task"
  /\ frames' = Append(frames,
       NewFrame("make_synchronized_task", "sync", mainv.t, frames[mainv.t].void))
  /\ syncs' = Append(syncs, [sem |-> 0, notified |-> 0, alive |-> TRUE,
                             task |-> Len(frames) + 1])
  /\ mainv' = [mainv EXCEPT !.sync_task = Len(frames) + 1,
                            !.work_done = Len(syncs) + 1]
  /\ out' = IF frames[mainv.t].void THEN out
            ELSE Append(out, [who |-> "test", text |-> "Result: ", val |-> 0])
  /\ threads' = [threads EXCEPT ![1].pc = "start",
                                ![1].stack = AfterCreate(@, Len(frames) + 1, "sync")]
  /\ UNCHANGED <<asyncs, excs, ub>>

(* synchronized_task::start: promise_->set_sync(sync); handle.resume(); *)
Start ==
  /\ ThreadCode(1)
  /\ threads[1].pc = "start"
  /\ frames' = resume([frames EXCEPT ![mainv.sync_task].sync_ = mainv.work_done,
                                     ![mainv.sync_task].started = @ + 1],
                      mainv.sync_task)
  /\ ub' = ub \cup ResumeUB(frames, mainv.sync_task)
  /\ threads' = [threads EXCEPT ![1].pc = "acquire",
                                ![1].stack = <<mainv.sync_task>>]
  /\ UNCHANGED <<asyncs, syncs, excs, out, mainv>>

(* Mutation: sync_await does not wait for the semaphore. *)
AcquireNoWait ==
  /\ ThreadCode(1)
  /\ threads[1].pc = "acquire"
  /\ threads' = [threads EXCEPT ![1].pc = "get"]
  /\ UNCHANGED <<frames, asyncs, syncs, excs, out, mainv, ub>>

(* work_done.sem.acquire(): blocks while the count is 0 *)
Acquire ==
  /\ ThreadCode(1)
  /\ threads[1].pc = "acquire"
  /\ syncs[mainv.work_done].sem > 0
  /\ syncs' = [syncs EXCEPT ![mainv.work_done].sem = @ - 1]
  /\ threads' = [threads EXCEPT ![1].pc = "get"]
  /\ UNCHANGED <<frames, asyncs, excs, out, mainv, ub>>

(* return sync_task.get(): the cell of the synchronized task is read; the  *)
(* result is a reference (ref), or an exception leaves sync_await (exc).   *)
Get ==
  /\ ThreadCode(1)
  /\ threads[1].pc = "get"
  /\ LET S == mainv.sync_task
         r == get(frames[S].cell, frames[S].void)
     IN /\ excs' = IF r.kind = "bad_variant_access"
                     THEN Append(excs, [what |-> "bad_variant_access", by |-> "sync_await"])
                     ELSE excs
        /\ mainv' = [mainv EXCEPT
             !.exc = CASE r.kind = "rethrow" -> r.val
                       [] r.kind = "bad_variant_access" -> Len(excs) + 1
                       [] OTHER -> 0,
             !.ref = CASE r.kind = "pointer" -> r.val
                       [] r.kind = "value" -> S
                       [] OTHER -> 0]
  /\ threads' = [threads EXCEPT ![1].pc = "return"]
  /\ UNCHANGED <<frames, asyncs, syncs, out, ub>>

(* Leaving sync_await, by return or by exception: work_done and sync_task  *)
(* are destroyed; ~synchronized_task destroys the frame it owns.           *)
Return ==
  /\ ThreadCode(1)
  /\ threads[1].pc = "return"
  /\ frames' = promise_ptr_dtor(frames, mainv.sync_task)
  /\ asyncs' = DestroyAsyncs(asyncs, frames, mainv.sync_task)
  /\ syncs' = [syncs EXCEPT ![mainv.work_done].alive = FALSE]
  /\ mainv' = [mainv EXCEPT !.sync_task = 0]
  /\ threads' = [threads EXCEPT ![1].pc =
       IF mainv.exc # 0 THEN "catch"
       ELSE IF frames[mainv.t].void THEN "end_test" ELSE "print"]
  /\ UNCHANGED <<excs, out, ub>>

(* std::cout << ... << sync_await(t): the value is read through the        *)
(* reference sync_await returned.                                          *)
StreamResult ==
  /\ ThreadCode(1)
  /\ threads[1].pc = "print"
  /\ out' = Append(out, [who |-> "test", text |-> "<< sync_await(t)",
                         val |-> IF mainv.ref = 0 THEN 0
                                 ELSE frames[mainv.ref].cell.val])
  /\ ub' = ub \cup FrameUB(frames, mainv.ref, "dangling reference")
  /\ threads' = [threads EXCEPT ![1].pc = "end_test"]
  /\ UNCHANGED <<frames, asyncs, syncs, excs, mainv>>

(* catch (const std::exception& ex): "Exception caught: " << ex.what() *)
Catch ==
  /\ ThreadCode(1)
  /\ threads[1].pc = "catch"
  /\ out' = Append(out, [who |-> "test", text |-> "Exception caught: ",
                         val |-> mainv.exc])
  /\ threads' = [threads EXCEPT ![1].pc = "end_test"]
  /\ UNCHANGED <<frames, asyncs, syncs, excs, mainv, ub>>

(* test returns: the parameter t is destroyed, and with it its frame *)
EndTest ==
  /\ ThreadCode(1)
  /\ threads[1].pc = "end_test"
  /\ frames' = promise_ptr_dtor(frames, mainv.t)
  /\ asyncs' = DestroyAsyncs(asyncs, frames, mainv.t)
  /\ mainv' = [mainv EXCEPT !.t = 0]
  /\ threads' = [threads EXCEPT ![1].pc =
       IF Len(mainv.tests) < MaxTests THEN "call_test" ELSE "exit"]
  /\ UNCHANGED <<syncs, excs, out, ub>>


(***************************************************************************)
(* async<Func>                                                             *)
(***************************************************************************)
(* Mutation: the async awaiter reports ready, the coroutine goes on        *)
(* without suspending.                                                     *)
async_await_ready_true == TRUE

(* async::awaiter::await_ready *)
async_await_ready == FALSE

(* co_await async(callable): the async temporary is built in the frame,    *)
(* the coroutine suspends, and await_suspend starts a detached jthread     *)
(* that holds the handle; await_suspend returns void, so control goes back *)
(* to whoever resumed the coroutine.                                       *)
CoAwaitAsync(th) ==
  \E f \in DOMAIN frames :
    /\ InBody(th, f)
    /\ frames[f].phase = "exec"
    /\ Instr(f).op = "await_async"
    /\ asyncs' = Append(asyncs,
         [func |-> Instr(f).f, cell |-> Monostate, writes |-> 0, owner |-> f,
          alive |-> TRUE, awaited |-> 1, invoked |-> 0,
          spawned |-> IF async_await_ready THEN 0 ELSE 1,
          by |-> th,                         \* the thread that ran co_await
          invoker |-> 0,                     \* the thread that called func_
          resumed |-> 0])                    \* handle.resume() calls of `work`
    /\ IF async_await_ready
         THEN /\ frames' = [frames EXCEPT ![f].phase = "resumed",
                                          ![f].aw = Len(asyncs) + 1,
                                          ![f].stmts = @ + 1]
              /\ threads' = threads
         ELSE /\ frames' = [frames EXCEPT ![f].st = "suspended",
                                          ![f].phase = "await",
                                          ![f].aw = Len(asyncs) + 1,
                                          ![f].stmts = @ + 1]
              /\ threads' = Append(
                   [threads EXCEPT ![th].stack = Pop(@), ![th].susp = Returning(threads[th])],
                   NewThread("worker", "invoke", Len(asyncs) + 1, f))
    /\ UNCHANGED <<syncs, excs, out, mainv, ub>>

(* Mutation: after storing, the worker calls the callable again. *)
WorkNextInvokesAgain(step) ==
  CASE step = "invoke" -> "store"
    [] step = "store" -> "invoke"
    [] step = "resume" -> "done"

(* Mutation: the worker resumes the coroutine before it stores. *)
WorkNextResumeFirst(step) ==
  CASE step = "invoke" -> "resume"
    [] step = "resume" -> "store"
    [] step = "store" -> "done"

(* Mutation: the worker calls handle.resume() a second time. *)
WorkNextResumesTwice(step) ==
  CASE step = "invoke" -> "store"
    [] step = "store" -> "resume"
    [] step = "resume" -> "resume"

(* The statements of the lambda `work` of async::awaiter::await_suspend,   *)
(* in order: the call of func_, the store of its outcome, handle.resume(). *)
WorkNext(step) ==
  CASE step = "invoke" -> "store"
    [] step = "store" -> "resume"
    [] step = "resume" -> "done"

(* The worker: awaitable.func_() -- one statement of the callable *)
WorkerInvoke(w) ==
  /\ threads[w].kind = "worker"
  /\ ThreadCode(w)
  /\ threads[w].pc = "invoke"
  /\ LET a == threads[w].async
         s == Callable(asyncs[a].func)[threads[w].ip]
         h == asyncs[a].owner
     IN /\ asyncs' = [asyncs EXCEPT ![a].invoked =
                        IF threads[w].ip = 1 THEN @ + 1 ELSE @,
                                    ![a].invoker = w]
        /\ ub' = ub \cup (IF asyncs[a].alive THEN {} ELSE {"dead async"})
                    \cup (IF s.op = "print_result"
                            THEN FrameUB(frames, h, "dangling capture") ELSE {})
        /\ threads' = [threads EXCEPT
             ![w].pc = CASE s.op \in {"return", "throw"} -> WorkNext("invoke")
                         [] s.op = "return_void" -> WorkNext(WorkNext("invoke"))
                         [] OTHER -> "invoke",
             ![w].ip = IF s.op \in {"print", "print_result"} THEN @ + 1 ELSE @,
             ![w].ret = IF s.op = "return" THEN s.v ELSE @,
             ![w].exc = IF s.op = "throw" THEN Len(excs) + 1 ELSE @]
        /\ excs' = IF s.op = "throw"
                     THEN Append(excs, [what |-> s.text, by |-> asyncs[a].func])
                     ELSE excs
        /\ out' = CASE s.op = "print" ->
                         Append(out, [who |-> asyncs[a].func, text |-> s.text, val |-> 0])
                    [] s.op = "print_result" ->
                         Append(out, [who |-> asyncs[a].func, text |-> s.text,
                                      val |-> frames[h].result])
                    [] OTHER -> out
  /\ UNCHANGED <<frames, syncs, mainv>>

(* The worker: awaitable.result_.set_value(...) on return,                 *)
(* awaitable.result_.set_exception(std::current_exception()) in catch (...) *)
WorkerStore(w) ==
  /\ threads[w].kind = "worker"
  /\ ThreadCode(w)
  /\ threads[w].pc = "store"
  /\ LET a == threads[w].async
     IN /\ asyncs' = [asyncs EXCEPT
             ![a].cell = IF threads[w].exc # 0
                           THEN set_exception(@, threads[w].exc)
                           ELSE set_value(@, threads[w].ret),
             ![a].writes = @ + 1]
        /\ ub' = ub \cup (IF asyncs[a].alive THEN {} ELSE {"dead async"})
  /\ threads' = [threads EXCEPT ![w].pc = WorkNext("store")]
  /\ UNCHANGED <<frames, syncs, excs, out, mainv>>

(* The worker: handle.resume() *)
WorkerResume(w) ==
  /\ threads[w].kind = "worker"
  /\ ThreadCode(w)
  /\ threads[w].pc = "resume"
  /\ frames' = resume(frames, threads[w].handle)
  /\ ub' = ub \cup ResumeUB(frames, threads[w].handle)
  /\ threads' = [threads EXCEPT ![w].pc = WorkNext("resume"),
                                ![w].stack = <<threads[w].handle>>]
  /\ asyncs' = [asyncs EXCEPT ![threads[w].async].resumed = @ + 1]
  /\ UNCHANGED <<syncs, excs, out, mainv>>

(* async::awaiter::await_resume: std::move(awaitable.result_).get() *)
AwaitResumeAsync(th) ==
  \E f \in DOMAIN frames :
    /\ InBody(th, f)
    /\ frames[f].phase = "resumed"
    /\ Instr(f).op = "await_async"
    /\ LET a == frames[f].aw
           r == get(asyncs[a].cell, CallableIsVoid(asyncs[a].func))
       IN /\ excs' = IF r.kind = "bad_variant_access"
                       THEN Append(excs, [what |-> "bad_variant_access", by |-> frames[f].fn])
                       ELSE excs
          /\ frames' = [frames EXCEPT
               ![f].phase = "temp",
               ![f].result = IF r.kind = "value" /\ Instr(f).bind THEN r.val ELSE @,
               ![f].resultSet = IF r.kind = "value" /\ Instr(f).bind THEN TRUE ELSE @,
               ![f].thr = CASE r.kind = "rethrow" -> r.val
                            [] r.kind = "bad_variant_access" -> Len(excs) + 1
                            [] OTHER -> 0]
          /\ asyncs' = [asyncs EXCEPT ![a].cell = after_get(@)]
          /\ ub' = ub \cup (IF asyncs[a].alive THEN {} ELSE {"dead async"})
    /\ UNCHANGED <<threads, syncs, out, mainv>>


(***************************************************************************)
(* task<T>                                                                 *)
(***************************************************************************)
(* co_await fn(): first the call of the coroutine function; the temporary  *)
(* task owns the new frame until the end of the full-expression.           *)
CallCoroutine(th) ==
  \E f \in DOMAIN frames :
    /\ InBody(th, f)
    /\ frames[f].phase = "exec"
    /\ Instr(f).op = "await_task"
    /\ frames' = Append(
         [frames EXCEPT ![f].tmp = Len(frames) + 1, ![f].phase = "awaiting",
                        ![f].stmts = @ + 1],
         NewFrame(Instr(f).f, Kind(Instr(f).f), 0, IsVoid(Instr(f).f)))
    /\ threads' = [threads EXCEPT
         ![th].stack = AfterCreate(@, Len(frames) + 1, Kind(Instr(f).f))]
    /\ UNCHANGED <<asyncs, syncs, excs, out, mainv, ub>>

(* The task a co_await of frame f is about: the temporary, or the          *)
(* parameter `awaitable` of make_synchronized_task.                        *)
Awaited(f) == IF Instr(f).op = "await_lvalue" THEN frames[f].arg ELSE frames[f].tmp

(* Mutation: the awaiter never reports ready. *)
await_ready_never(fs, target) == FALSE

(* task::awaiter::await_ready: handle.done() *)
await_ready(fs, target) == fs[target].st = "done"

(* Mutation: the awaiter transfers control without storing the continuation. *)
await_suspend_forgets(fs, f, target) ==
  resume([fs EXCEPT ![f].st = "suspended", ![f].phase = "await"], target)

(* task::awaiter::await_suspend: the continuation is stored in the awaited *)
(* task's promise and its handle is returned (symmetric transfer).         *)
await_suspend(fs, f, target) ==
  resume([fs EXCEPT ![f].st = "suspended", ![f].phase = "await",
                    ![target].continuation = f], target)

(* The eager task::awaiter::await_suspend (and the one of                  *)
(* exercise07_solution.cpp) does nothing: the awaiting coroutine stays     *)
(* suspended and control returns to its resumer.                           *)
await_suspend_eager(fs, f) ==
  [fs EXCEPT ![f].st = "suspended", ![f].phase = "await"]

(* The eager task::awaiter::await_resume: *promise_.result_ (nothing for   *)
(* void); dereferencing an empty optional is undefined.                    *)
await_resume_eager(cell, isVoid) ==
  IF isVoid THEN [kind |-> "void", val |-> 0]
  ELSE IF cell.tag = "value" THEN [kind |-> "value", val |-> cell.val]
  ELSE [kind |-> "empty optional", val |-> 0]

(* co_await on a task: await_ready, then suspension and await_suspend *)
AwaitTask(th) ==
  \E f \in DOMAIN frames :
    /\ InBody(th, f)
    /\ \/ frames[f].phase = "awaiting" /\ Instr(f).op = "await_task"
       \/ frames[f].phase = "exec" /\ Instr(f).op = "await_lvalue"
    /\ IF await_ready(frames, Awaited(f))
         THEN /\ frames' = [frames EXCEPT ![f].phase = "resumed",
                              ![f].stmts = IF Instr(f).op = "await_lvalue" THEN @ + 1 ELSE @]
              /\ threads' = threads
              /\ ub' = ub
         ELSE IF frames[Awaited(f)].kind \in {"eager", "task_ex07"}
         THEN /\ frames' = await_suspend_eager(frames, f)
              /\ threads' = [threads EXCEPT ![th].stack = Pop(@), ![th].susp = Returning(threads[th])]
              /\ ub' = ub
         ELSE /\ frames' = await_suspend(
                   [frames EXCEPT ![f].stmts =
                      IF Instr(f).op = "await_lvalue" THEN @ + 1 ELSE @],
                   f, Awaited(f))
              /\ threads' = [threads EXCEPT ![th].stack = ReplaceTop(@, Awaited(f))]
              /\ ub' = ub \cup ResumeUB(frames, Awaited(f))
    /\ UNCHANGED <<asyncs, syncs, excs, out, mainv>>

(* task::awaiter::await_resume: promise.get().  Awaiting the temporary     *)
(* moves the value out; awaiting the lvalue yields a reference into the    *)
(* awaited task's cell.                                                    *)
AwaitResumeTask(th) ==
  \E f \in DOMAIN frames :
    /\ InBody(th, f)
    /\ frames[f].phase = "resumed"
    /\ Instr(f).op \in {"await_task", "await_lvalue"}
    /\ LET t == Awaited(f)
           r == IF frames[t].kind = "eager"
                  THEN await_resume_eager(frames[t].cell, frames[t].void)
                  ELSE get(frames[t].cell, frames[t].void)
           bound == r.kind \in {"value", "pointer"} /\ Instr(f).bind
       IN /\ excs' = IF r.kind = "bad_variant_access"
                       THEN Append(excs, [what |-> "bad_variant_access", by |-> frames[f].fn])
                       ELSE excs
          /\ frames' = [frames EXCEPT
               ![t].cell = IF frames[t].kind = "eager" THEN @
                           ELSE IF Instr(f).op = "await_task" THEN after_get(@)
                           ELSE after_get_lvalue(@),
               ![f].phase = "temp",
               ![f].result = IF ~bound THEN @
                             ELSE IF Instr(f).op = "await_lvalue" THEN t ELSE r.val,
               ![f].resultSet = IF bound THEN TRUE ELSE @,
               ![f].thr = CASE r.kind = "rethrow" -> r.val
                            [] r.kind = "bad_variant_access" -> Len(excs) + 1
                            [] OTHER -> 0]
          /\ ub' = ub \cup FrameUB(frames, t, "awaited frame destroyed")
                      \cup (IF r.kind = "empty optional" THEN {"empty optional"} ELSE {})
    /\ UNCHANGED <<asyncs, threads, syncs, out, mainv>>

(* End of the full-expression of a co_await, or unwinding out of it: the   *)
(* temporary async or task is destroyed; ~task destroys the frame it owns. *)
DestroyTemp(th) ==
  \E f \in DOMAIN frames :
    /\ InBody(th, f)
    /\ frames[f].phase = "temp"
    /\ frames' = [promise_ptr_dtor(frames, frames[f].tmp) EXCEPT
         ![f].tmp = 0, ![f].aw = 0,
         ![f].phase = IF frames[f].thr # 0 THEN "unhandled" ELSE "exec",
         ![f].pc = IF frames[f].thr # 0 THEN @ ELSE @ + 1]
    /\ asyncs' = [a \in DOMAIN asyncs |->
         IF a = frames[f].aw \/ asyncs[a].owner \in Tree(frames, frames[f].tmp)
           THEN [asyncs[a] EXCEPT !.alive = FALSE] ELSE asyncs[a]]
    /\ UNCHANGED <<threads, syncs, excs, out, mainv, ub>>

(* std::osyncstream(std::cout) << text << result *)
Output(th) ==
  \E f \in DOMAIN frames :
    /\ InBody(th, f)
    /\ frames[f].phase = "exec"
    /\ Instr(f).op = "print"
    /\ out' = Append(out, [who |-> frames[f].fn, text |-> Instr(f).text,
                           val |-> frames[f].result])
    /\ frames' = [frames EXCEPT ![f].pc = @ + 1, ![f].stmts = @ + 1]
    /\ UNCHANGED <<asyncs, threads, syncs, excs, mainv, ub>>

(* The operand of co_return *)
Eval(e, fr) ==
  CASE e = "result + 23" -> fr.result + 23
    [] e = "42" -> 42
    [] e = "awaited" -> fr.result
    [] OTHER -> 0

(* Mutation: the synchronized task keeps a copy of the value in its own    *)
(* cell.                                                                   *)
return_value_copies(fr, v) == set_value(fr.cell, v)

(* task_promise_storage<T>::return_value: this->set_value(value); the      *)
(* synchronized task of an lvalue task<int> is a                           *)
(* synchronized_task<sync, const int&>, whose cell keeps the address.      *)
return_value(fr, v) ==
  IF fr.kind = "sync" THEN set_value_ref(fr.cell, v) ELSE set_value(fr.cell, v)

(* Mutation: return_void marks the cell as holding a value. *)
return_void_stores(fr) == set_value(fr.cell, 0)

(* task_promise_storage<void>::return_void: empty, the cell is left alone *)
return_void(fr) == fr.cell

(* co_return: return_value(expr), or return_void() for a void operand or   *)
(* on flowing off the end of the body                                      *)
CoReturn(th) ==
  \E f \in DOMAIN frames :
    /\ InBody(th, f)
    /\ frames[f].phase = "exec"
    /\ Instr(f).op = "co_return"
    /\ frames' = [frames EXCEPT
         ![f].cell = IF frames[f].void THEN return_void(frames[f])
                     ELSE return_value(frames[f], Eval(Instr(f).e, frames[f])),
         ![f].writes = IF frames[f].void THEN @ ELSE @ + 1,
         ![f].completed = IF frames[f].void THEN "return_void" ELSE "return_value",
         ![f].phase = "final",
         ![f].stmts = @ + 1]
    /\ UNCHANGED <<asyncs, threads, syncs, excs, out, mainv, ub>>

(* Mutation: unhandled_exception swallows the exception. *)
unhandled_exception_drops(fr) == fr.cell

(* task_promise_storage_base<T>::unhandled_exception:                      *)
(* this->set_exception(std::current_exception())                           *)
unhandled_exception(fr) == set_exception(fr.cell, fr.thr)

UnhandledException(th) ==
  \E f \in DOMAIN frames :
    /\ InBody(th, f)
    /\ frames[f].phase = "unhandled"
    /\ frames' = [frames EXCEPT
         ![f].cell = unhandled_exception(frames[f]),
         ![f].writes = @ + 1,
         ![f].completed = "unhandled_exception",
         ![f].thr = 0,
         ![f].phase = "final"]
    /\ UNCHANGED <<asyncs, threads, syncs, excs, out, mainv, ub>>

(* Mutation: the final awaiter does not suspend (std::suspend_never): the  *)
(* frame is destroyed as soon as the body is over.                         *)
final_suspend_never(fr) ==
  [fr EXCEPT !.st = "destroyed", !.phase = "done", !.destroyed = @ + 1]

(* final_suspend returns an awaiter derived from std::suspend_always (or   *)
(* std::suspend_always itself): the coroutine stays suspended at its final *)
(* suspend point, done() is true and the frame is kept.                    *)
final_suspend(fr) == [fr EXCEPT !.st = "done", !.phase = "done"]

(* task::promise_type::final_suspend: the coroutine suspends at its final  *)
(* suspend point and final_awaiter::await_suspend returns the continuation *)
FinalSuspendTask(th) ==
  \E f \in DOMAIN frames :
    /\ InBody(th, f)
    /\ frames[f].phase = "final"
    /\ frames[f].kind = "task"
    /\ LET c == frames[f].continuation
           fs == [frames EXCEPT ![f] = final_suspend(@)]
       IN IF c = 0
            THEN /\ frames' = fs
                 /\ threads' = [threads EXCEPT ![th].stack = Pop(@),
                                               ![th].susp = Returning(threads[th])]
                 /\ ub' = ub
            ELSE /\ frames' = resume(fs, c)
                 /\ threads' = [threads EXCEPT ![th].stack = ReplaceTop(@, c)]
                 /\ ub' = ub \cup ResumeUB(fs, c)
    /\ UNCHANGED <<asyncs, syncs, excs, out, mainv>>

(* The eager task::promise_type::final_suspend: std::suspend_always; the   *)
(* frame stays at its final suspend point and control returns to the       *)
(* caller of the coroutine function (or the resumer).                      *)
FinalSuspendEager(th) ==
  \E f \in DOMAIN frames :
    /\ InBody(th, f)
    /\ frames[f].phase = "final"
    /\ frames[f].kind \in {"eager", "task_ex07"}
    /\ frames' = [frames EXCEPT ![f] = final_suspend(@)]
    /\ threads' = [threads EXCEPT ![th].stack = Pop(@), ![th].susp = Returning(threads[th])]
    /\ UNCHANGED <<asyncs, syncs, excs, out, mainv, ub>>

(* The coroutine function main calls as run() *)
RunFn(prog) == IF prog = "exercise07_solution" THEN "run_ex07" ELSE "run"

(* main of exercise11_solution.cpp and of exercise07_solution.cpp:         *)
(* const auto task = run();                                                *)
CallRun ==
  /\ ThreadCode(1)
  /\ threads[1].pc = "call_run"
  /\ LET fn == RunFn(mainv.prog)
     IN /\ frames' = Append(frames, NewFrame(fn, Kind(fn), 0, IsVoid(fn)))
        /\ threads' = [threads EXCEPT
             ![1].pc = IF mainv.prog = "exercise07_solution" THEN "start_run"
                       ELSE "end_run",
             ![1].stack = AfterCreate(@, Len(frames) + 1, Kind(fn))]
  /\ mainv' = [mainv EXCEPT !.t = Len(frames) + 1]
  /\ UNCHANGED <<asyncs, syncs, excs, out, ub>>

(* task::start of exercise07_solution.cpp: the body is a TODO comment, the *)
(* frame is left as it is.                                                 *)
start_ex07(fs, f) == fs

(* main of exercise07_solution.cpp: task.start(); *)
StartRun ==
  /\ ThreadCode(1)
  /\ threads[1].pc = "start_run"
  /\ frames' = [start_ex07(frames, mainv.t) EXCEPT ![mainv.t].started = @ + 1]
  /\ threads' = [threads EXCEPT ![1].pc = "end_run"]
  /\ UNCHANGED <<asyncs, syncs, excs, out, mainv, ub>>

(* main returns: task is destroyed, and with it the frame of run *)
EndRun ==
  /\ ThreadCode(1)
  /\ threads[1].pc = "end_run"
  /\ frames' = promise_ptr_dtor(frames, mainv.t)
  /\ asyncs' = DestroyAsyncs(asyncs, frames, mainv.t)
  /\ mainv' = [mainv EXCEPT !.t = 0]
  /\ threads' = [threads EXCEPT ![1].pc = "exit"]
  /\ UNCHANGED <<syncs, excs, out, ub>>

(***************************************************************************)
(* generator<T> and main of exercise11_solution.cpp (first program)        *)
(***************************************************************************)
(* The coroutine function of the loop-th range-based for loop of main *)
GenFn(loop) ==
  IF mainv.prog = "range_for" THEN mainv.tests[1]
  ELSE CASE loop = 1 -> "iota" [] loop = 2 -> "fibonacci" [] OTHER -> "broken"

(* The generator object that first owns the frame: the temporary iota(),   *)
(* the variable gen, the temporary broken() bound to the loop's range.     *)
GenSlot(loop) ==
  CASE loop = 1 -> "temp" [] loop = 2 -> "gen" [] OTHER -> "range"

(* The generator the loop iterates over *)
RangeSlot(loop) ==
  CASE loop = 1 -> "view" [] loop = 2 -> "gen" [] OTHER -> "range"

(* iota(), fibonacci(), broken(): get_return_object makes the generator    *)
(* that owns the new frame.                                                *)
GenCall ==
  /\ ThreadCode(1)
  /\ threads[1].pc = "gen_call"
  /\ LET fn == GenFn(mainv.loop)
     IN /\ frames' = Append(frames, NewFrame(fn, Kind(fn), 0, TRUE))
        /\ threads' = [threads EXCEPT
             ![1].pc = IF mainv.loop = 1 THEN "take_view" ELSE "begin",
             ![1].stack = AfterCreate(@, Len(frames) + 1, Kind(fn))]
  /\ mainv' = [mainv EXCEPT !.own[GenSlot(mainv.loop)] = Len(frames) + 1]
  /\ UNCHANGED <<asyncs, syncs, excs, out, ub>>

(* Mutation: the move leaves the source pointing at the frame. *)
promise_ptr_copy(p) == [dst |-> p, src |-> p]

(* promise_ptr(promise_ptr&&), the move constructor of std::unique_ptr:    *)
(* the new pointer takes the frame and the source becomes null.            *)
promise_ptr_move(p) == [dst |-> p, src |-> 0]

(* iota() | std::views::take(10): the generator temporary is moved into    *)
(* the by-value parameter of the take_view constructor.                    *)
TakeView ==
  /\ ThreadCode(1)
  /\ threads[1].pc = "take_view"
  /\ LET m == promise_ptr_move(mainv.own.temp)
     IN mainv' = [mainv EXCEPT !.own.base = m.dst, !.own.temp = m.src]
  /\ threads' = [threads EXCEPT ![1].pc = "take_view_init"]
  /\ UNCHANGED <<frames, asyncs, syncs, excs, out, ub>>

(* The take_view constructor moves its parameter into its member. *)
TakeViewInit ==
  /\ ThreadCode(1)
  /\ threads[1].pc = "take_view_init"
  /\ LET m == promise_ptr_move(mainv.own.base)
     IN mainv' = [mainv EXCEPT !.own.view = m.dst, !.own.base = m.src]
  /\ threads' = [threads EXCEPT ![1].pc = "range_init_end"]
  /\ UNCHANGED <<frames, asyncs, syncs, excs, out, ub>>

(* The moved-from parameter and the moved-from temporary are destroyed. *)
RangeInitEnd ==
  /\ ThreadCode(1)
  /\ threads[1].pc = "range_init_end"
  /\ frames' = promise_ptr_dtor(promise_ptr_dtor(frames, mainv.own.base),
                                mainv.own.temp)
  /\ mainv' = [mainv EXCEPT !.own.base = 0, !.own.temp = 0]
  /\ threads' = [threads EXCEPT ![1].pc = "begin"]
  /\ UNCHANGED <<asyncs, syncs, excs, out, ub>>

(* generator::begin: handle.resume(); return iterator{*promise_}; the      *)
(* counted iterators of take and counted start with their count.           *)
Begin ==
  /\ ThreadCode(1)
  /\ threads[1].pc = "begin"
  /\ LET h == mainv.own[RangeSlot(mainv.loop)]
     IN /\ frames' = resume(frames, h)
        /\ ub' = ub \cup ResumeUB(frames, h) \cup FrameUB(frames, h, "resume of a destroyed frame")
        /\ threads' = [threads EXCEPT ![1].pc = "test", ![1].stack = <<h>>]
        /\ mainv' = [mainv EXCEPT
             !.it = h,
             !.visited = <<>>,
             !.n = CASE mainv.loop = 1 -> TakeCount
                     [] mainv.loop = 2 -> CountedCount
                     [] OTHER -> 0]
  /\ UNCHANGED <<asyncs, syncs, excs, out>>

(* Mutation: the iterator compares equal to end() from the start. *)
AtEndAlways == TRUE

(* iterator == end(): handle_.done() for the generator's iterator, the     *)
(* count for std::views::counted, either for std::views::take              *)
AtEnd ==
  CASE mainv.loop = 1 -> mainv.n = 0 \/ frames[mainv.it].st = "done"
    [] mainv.loop = 2 -> mainv.n = 0
    [] OTHER -> frames[mainv.it].st = "done"

(* The loop condition of the range-based for *)
Test ==
  /\ ThreadCode(1)
  /\ threads[1].pc = "test"
  /\ threads' = [threads EXCEPT ![1].pc = IF AtEnd THEN "loop_end" ELSE "body"]
  /\ UNCHANGED <<frames, asyncs, syncs, excs, out, mainv, ub>>

(* auto i = *it (iterator::operator*: *handle_.promise().value);           *)
(* std::cout << i << ' '                                                   *)
LoopBody ==
  /\ ThreadCode(1)
  /\ threads[1].pc = "body"
  /\ out' = Append(out, [who |-> "main", text |-> "", val |-> frames[mainv.it].value])
  /\ threads' = [threads EXCEPT ![1].pc = "incr"]
  /\ mainv' = [mainv EXCEPT !.visited = Append(@, frames[mainv.it].value)]
  /\ UNCHANGED <<frames, asyncs, syncs, excs, ub>>

(* iterator::operator++: handle_.resume(); a counted iterator also counts  *)
(* down.                                                                   *)
Incr ==
  /\ ThreadCode(1)
  /\ threads[1].pc = "incr"
  /\ frames' = resume(frames, mainv.it)
  /\ ub' = ub \cup ResumeUB(frames, mainv.it)
  /\ threads' = [threads EXCEPT ![1].pc = "test", ![1].stack = <<mainv.it>>]
  /\ mainv' = [mainv EXCEPT !.n = IF mainv.loop \in {1, 2} THEN @ - 1 ELSE @]
  /\ UNCHANGED <<asyncs, syncs, excs, out>>

(* The loop is left: its range is destroyed (the take_view with the        *)
(* generator it holds, or the temporary broken()), std::cout << '\n'; gen  *)
(* lives till the end of the try block.                                    *)
LoopEnd ==
  /\ ThreadCode(1)
  /\ threads[1].pc = "loop_end"
  /\ out' = Append(out, [who |-> "main", text |-> "\n", val |-> 0])
  /\ frames' = CASE mainv.loop = 1 -> promise_ptr_dtor(frames, mainv.own.view)
                 [] mainv.loop = 2 -> frames
                 [] OTHER -> promise_ptr_dtor(promise_ptr_dtor(frames, mainv.own.range),
                                              mainv.own.gen)
  /\ mainv' = [mainv EXCEPT
       !.own = CASE mainv.loop = 1 -> [@ EXCEPT !.view = 0]
                 [] mainv.loop = 2 -> @
                 [] OTHER -> [@ EXCEPT !.range = 0, !.gen = 0],
       !.loop = IF @ < 3 THEN @ + 1 ELSE @,
       !.it = 0]
  /\ threads' = [threads EXCEPT ![1].pc = IF mainv.loop < 3 THEN "gen_call" ELSE "exit"]
  /\ UNCHANGED <<asyncs, syncs, excs, ub>>

(* The body of a loop that runs forever continues at its first statement. *)
NextPc(fn, pc) ==
  IF fn \in {"iota", "fibonacci"} /\ pc = Len(Body(fn)) THEN 1 ELSE pc + 1

(* The operand of co_yield *)
YieldValue(e, fr) ==
  CASE e = "start++" -> fr.start
    [] e = "b" -> fr.b
    [] e = "1" -> 1
    [] e = "2" -> 2
    [] e = "pc" -> fr.pc

(* co_yield: promise_type::yield_value keeps the address of the value and  *)
(* the generator suspends; resume() returns to the consumer.               *)
Yield(th) ==
  \E f \in DOMAIN frames :
    /\ InBody(th, f)
    /\ frames[f].kind = "generator"
    /\ Instr(f).op = "co_yield"
    /\ frames' = [frames EXCEPT
         ![f].value = YieldValue(Instr(f).e, frames[f]),
         ![f].yielded = Append(@, YieldValue(Instr(f).e, frames[f])),
         ![f].start = IF Instr(f).e = "start++" THEN @ + 1 ELSE @,
         ![f].st = "suspended",
         ![f].pc = NextPc(frames[f].fn, @),
         ![f].stmts = @ + 1]
    /\ threads' = [threads EXCEPT ![th].stack = Pop(@), ![th].susp = Returning(threads[th])]
    /\ UNCHANGED <<asyncs, syncs, excs, out, mainv, ub>>

(* a = std::exchange(b, a + b) *)
Exchange(th) ==
  \E f \in DOMAIN frames :
    /\ InBody(th, f)
    /\ frames[f].kind = "generator"
    /\ Instr(f).op = "exchange"
    /\ frames' = [frames EXCEPT
         ![f].a = frames[f].b,
         ![f].b = frames[f].a + frames[f].b,
         ![f].pc = NextPc(frames[f].fn, @),
         ![f].stmts = @ + 1]
    /\ UNCHANGED <<asyncs, threads, syncs, excs, out, mainv, ub>>

(***************************************************************************)
(* The generator with next() and value() of part_005, and its main         *)
(***************************************************************************)
(* Number of g.next() calls followed *)
MaxNext == 4

(* auto g = simple(); *)
CallSimple ==
  /\ ThreadCode(1)
  /\ threads[1].pc = "simple_call"
  /\ frames' = Append(frames, NewFrame("simple", Kind("simple"), 0, TRUE))
  /\ mainv' = [mainv EXCEPT !.own.gen = Len(frames) + 1]
  /\ threads' = [threads EXCEPT ![1].pc = "next",
                                ![1].stack = AfterCreate(@, Len(frames) + 1, Kind("simple"))]
  /\ UNCHANGED <<asyncs, syncs, excs, out, ub>>

(* generator::next: handle.resume(); *)
NextResume ==
  /\ ThreadCode(1)
  /\ threads[1].pc = "next"
  /\ mainv.n < MaxNext
  /\ frames' = resume(frames, mainv.own.gen)
  /\ ub' = ub \cup ResumeUB(frames, mainv.own.gen)
  /\ threads' = [threads EXCEPT ![1].pc = "next_done", ![1].stack = <<mainv.own.gen>>]
  /\ mainv' = [mainv EXCEPT !.n = @ + 1]
  /\ UNCHANGED <<asyncs, syncs, excs, out>>

(* generator::next: return !handle.done(); and the test of the while loop *)
NextDone ==
  /\ ThreadCode(1)
  /\ threads[1].pc = "next_done"
  /\ threads' = [threads EXCEPT ![1].pc =
       IF frames[mainv.own.gen].st = "done" THEN "simple_end" ELSE "value"]
  /\ UNCHANGED <<frames, asyncs, syncs, excs, out, mainv, ub>>

(* std::cout << g.value() << ' ': *(promise_->value_) *)
Value ==
  /\ ThreadCode(1)
  /\ threads[1].pc = "value"
  /\ out' = Append(out, [who |-> "main", text |-> "",
                         val |-> frames[mainv.own.gen].value])
  /\ threads' = [threads EXCEPT ![1].pc = "next"]
  /\ UNCHANGED <<frames, asyncs, syncs, excs, mainv, ub>>

(* std::cout << '\n'; main returns and g is destroyed *)
SimpleEnd ==
  /\ ThreadCode(1)
  /\ threads[1].pc = "simple_end"
  /\ out' = Append(out, [who |-> "main", text |-> "\n", val |-> 0])
  /\ frames' = promise_ptr_dtor(frames, mainv.own.gen)
  /\ mainv' = [mainv EXCEPT !.own.gen = 0]
  /\ threads' = [threads EXCEPT ![1].pc = "exit"]
  /\ UNCHANGED <<asyncs, syncs, excs, ub>>

(* Does the generator's promise_type declare return_void?  The one of      *)
(* part_005 does not.                                                      *)
has_return_void(fn) == fn # "simple"

(* What flowing off the end of a body does when the promise has no         *)
(* return_void: undefined; the coroutine may go on to its final suspend    *)
(* point as if by co_return, or be left where it is, not done.             *)
FlowOffOutcomes == {"final suspend", "not done"}

(* The end of the body of simple is reached *)
FlowOffEnd(th) ==
  \E f \in DOMAIN frames :
    /\ InBody(th, f)
    /\ frames[f].kind = "generator"
    /\ Instr(f).op = "end_of_body"
    /\ \E o \in IF has_return_void(frames[f].fn) THEN {"final suspend"}
                 ELSE FlowOffOutcomes :
         frames' = [frames EXCEPT
           ![f] = IF o = "final suspend"
                    THEN [final_suspend(@) EXCEPT !.completed = "end_of_body"]
                    ELSE [@ EXCEPT !.st = "suspended"]]
    /\ ub' = ub \cup (IF has_return_void(frames[f].fn) THEN {}
                       ELSE {"flowing off the end without return_void"})
    /\ threads' = [threads EXCEPT ![th].stack = Pop(@), ![th].susp = Returning(threads[th])]
    /\ UNCHANGED <<asyncs, syncs, excs, out, mainv>>

(* Mutation: unhandled_exception returns, the exception is swallowed. *)
generator_unhandled_exception_returns == "return"

(* generator::promise_type::unhandled_exception: throw; *)
generator_unhandled_exception == "throw"

(* throw in a generator body: generator::promise_type::unhandled_exception *)
(* rethrows, the coroutine is left at its final suspend point and the      *)
(* exception leaves the resume() call of the consumer, whose try block is  *)
(* unwound.                                                                *)
Throw(th) ==
  \E f \in DOMAIN frames :
    /\ InBody(th, f)
    /\ frames[f].kind = "generator"
    /\ Instr(f).op = "throw"
    /\ frames' = [frames EXCEPT
         ![f].st = "done", ![f].phase = "done",
         ![f].completed = "rethrow",
         ![f].stmts = @ + 1]
    /\ excs' = Append(excs, [what |-> Instr(f).text, by |-> frames[f].fn])
    /\ IF generator_unhandled_exception = "throw"
         THEN /\ threads' = [threads EXCEPT ![th].stack = Pop(@), ![th].pc = "unwind"]
              /\ mainv' = [mainv EXCEPT !.exc = Len(excs) + 1]
         ELSE /\ threads' = [threads EXCEPT ![th].stack = Pop(@),
                                             ![th].susp = Returning(threads[th])]
              /\ mainv' = mainv
    /\ UNCHANGED <<asyncs, syncs, out, ub>>

(* Unwinding main's try block: the loop's range and gen are destroyed. *)
Unwind ==
  /\ ThreadCode(1)
  /\ threads[1].pc = "unwind"
  /\ frames' = promise_ptr_dtor(
                 promise_ptr_dtor(promise_ptr_dtor(frames, mainv.own.range),
                                  mainv.own.view),
                 mainv.own.gen)
  /\ mainv' = [mainv EXCEPT !.own = [temp |-> 0, base |-> 0, view |-> 0, gen |-> 0,
                                     range |-> 0],
                            !.it = 0]
  /\ threads' = [threads EXCEPT ![1].pc = "catch_main"]
  /\ UNCHANGED <<asyncs, syncs, excs, out, ub>>

(* catch (const std::exception& ex): "Unhandled exception: " << ex.what() *)
CatchMain ==
  /\ ThreadCode(1)
  /\ threads[1].pc = "catch_main"
  /\ out' = Append(out, [who |-> "main", text |-> "Unhandled exception: ",
                         val |-> mainv.exc])
  /\ threads' = [threads EXCEPT ![1].pc = "exit"]
  /\ UNCHANGED <<frames, asyncs, syncs, excs, mainv, ub>>

(***************************************************************************)
(* synchronized_task                                                       *)
(***************************************************************************)
(* synchronized_task::promise_type::final_suspend, await_suspend:          *)
(*   auto promise = h.promise();      -- a copy, local to await_suspend    *)
FinalSuspendSync(th) ==
  \E f \in DOMAIN frames :
    /\ InBody(th, f)
    /\ frames[f].phase = "final"
    /\ frames[f].kind = "sync"
    /\ frames' = [frames EXCEPT ![f] = final_suspend(@)]
    /\ threads' = [threads EXCEPT ![th].stack = Pop(@),
                                  ![th].susp = "notify",
                                  ![th].lsync = frames[f].sync_,
                                  ![th].lcont = frames[f].continuation]
    /\ UNCHANGED <<asyncs, syncs, excs, out, mainv, ub>>

(* Mutation: the semaphore is released twice. *)
notify_awaitable_completed_twice(ss, s) ==
  [ss EXCEPT ![s].sem = @ + 2, ![s].notified = @ + 2]

(* Mutation: the notification does not release the semaphore. *)
notify_awaitable_completed_lost(ss, s) == ss

(* sync::notify_awaitable_completed: sem.release() *)
notify_awaitable_completed(ss, s) ==
  [ss EXCEPT ![s].sem = @ + 1, ![s].notified = @ + 1]

(*   if (promise.sync_) promise.sync_->notify_awaitable_completed(); *)
Notify(th) ==
  /\ threads[th].susp = "notify"
  /\ syncs' = IF threads[th].lsync # 0
                THEN notify_awaitable_completed(syncs, threads[th].lsync)
                ELSE syncs
  /\ ub' = ub \cup (IF threads[th].lsync # 0 /\ ~syncs[threads[th].lsync].alive
                      THEN {"dead sync"} ELSE {})
  /\ threads' = [threads EXCEPT ![th].susp = "continuation"]
  /\ UNCHANGED <<frames, asyncs, excs, out, mainv>>

(* Mutation: the final awaiter reads the continuation from the promise in  *)
(* the frame, h.promise().continuation, after it has notified.             *)
final_awaiter_promise_in_frame == "frame"

(* Where the final awaiter of synchronized_task reads sync_ and            *)
(* continuation from: auto promise = h.promise() makes a copy before the   *)
(* notification, and only the copy is read afterwards.                     *)
final_awaiter_promise == "copy"

(* The frame of the synchronized task that was started with sync s *)
SyncFrame(s) ==
  IF \E f \in DOMAIN frames : frames[f].kind = "sync" /\ frames[f].sync_ = s
    THEN CHOOSE f \in DOMAIN frames : frames[f].kind = "sync" /\ frames[f].sync_ = s
    ELSE 0

(*   return promise.continuation;    -- read from the local copy *)
ReturnContinuation(th) ==
  /\ threads[th].susp = "continuation"
  /\ LET read == IF final_awaiter_promise = "copy" THEN {}
                 ELSE FrameUB(frames, SyncFrame(threads[th].lsync),
                              "promise read after notify")
     IN IF threads[th].lcont = 0
          THEN /\ threads' = [threads EXCEPT ![th].susp = Returning(threads[th])]
               /\ frames' = frames
               /\ ub' = ub \cup read
          ELSE /\ threads' = [threads EXCEPT ![th].susp = "",
                                ![th].stack = Append(@, threads[th].lcont)]
               /\ frames' = resume(frames, threads[th].lcont)
               /\ ub' = ub \cup read \cup ResumeUB(frames, threads[th].lcont)
  /\ UNCHANGED <<asyncs, syncs, excs, out, mainv>>

(* await_suspend has returned and nothing is left to resume: the resume()  *)
(* call this thread made returns to its caller.                            *)
ReturnFromResume(th) ==
  /\ threads[th].susp = "return"
  /\ threads' = [threads EXCEPT ![th].susp = ""]
  /\ UNCHANGED <<frames, asyncs, syncs, excs, out, mainv, ub>>

Next ==
  \/ \E fn \in TestFns : CallTest(fn)
  \/ MakeSync
  \/ Start
  \/ Acquire
  \/ Get
  \/ Return
  \/ StreamResult
  \/ Catch
  \/ EndTest
  \/ CallRun
  \/ StartRun
  \/ EndRun
  \/ GenCall
  \/ TakeView
  \/ TakeViewInit
  \/ RangeInitEnd
  \/ Begin
  \/ Test
  \/ LoopBody
  \/ Incr
  \/ LoopEnd
  \/ Unwind
  \/ CatchMain
  \/ CallSimple
  \/ NextResume
  \/ NextDone
  \/ Value
  \/ SimpleEnd
  \/ \E th \in DOMAIN threads : FlowOffEnd(th)
  \/ \E th \in DOMAIN threads : Yield(th)
  \/ \E th \in DOMAIN threads : Exchange(th)
  \/ \E th \in DOMAIN threads : Throw(th)
  \/ \E th \in DOMAIN threads : CoAwaitAsync(th)
  \/ \E th \in DOMAIN threads : WorkerInvoke(th)
  \/ \E th \in DOMAIN threads : WorkerStore(th)
  \/ \E th \in DOMAIN threads : WorkerResume(th)
  \/ \E th \in DOMAIN threads : AwaitResumeAsync(th)
  \/ \E th \in DOMAIN threads : CallCoroutine(th)
  \/ \E th \in DOMAIN threads : AwaitTask(th)
  \/ \E th \in DOMAIN threads : AwaitResumeTask(th)
  \/ \E th \in DOMAIN threads : DestroyTemp(th)
  \/ \E th \in DOMAIN threads : Output(th)
  \/ \E th \in DOMAIN threads : CoReturn(th)
  \/ \E th \in DOMAIN threads : UnhandledException(th)
  \/ \E th \in DOMAIN threads : FinalSuspendTask(th)
  \/ \E th \in DOMAIN threads : FinalSuspendSync(th)
  \/ \E th \in DOMAIN threads : FinalSuspendEager(th)
  \/ \E th \in DOMAIN threads : Notify(th)
  \/ \E th \in DOMAIN threads : ReturnContinuation(th)
  \/ \E th \in DOMAIN threads : ReturnFromResume(th)

Spec == Init /\ [][Next]_vars

(* The same programs with threads that are scheduled: a thread that can    *)
(* take a step (the main thread, a detached worker) is not held back for   *)
(* ever.  Every callable of the programs returns or throws.                *)
SpecFair == Spec /\ WF_vars(Next)

(***************************************************************************)
(* task::get() on a task that is done (exercise08_solution.cpp): test()    *)
(* reads task.get() once; here it is applied up to MaxGets times to a done *)
(* task whose cell is drawn from the outcomes a task can end with.         *)
(***************************************************************************)
(* Number of task.get() calls on one task *)
MaxGets == 3

(* The values a task<int> is completed with are drawn from 0 .. MaxValue *)
MaxValue == 5

(* The coroutine functions returning task<T> *)
TaskFns == {"func1", "func2", "func3", "example"}

(* The frame of fn() at its final suspend point, completed with cell c *)
DoneTask(fn, c) ==
  [NewFrame(fn, "task", 0, IsVoid(fn)) EXCEPT
     !.st = "done", !.phase = "done", !.pc = Len(Body(fn)),
     !.cell = c, !.writes = IF c = Monostate THEN 0 ELSE 1,
     !.completed = CASE c.tag = "exception" -> "unhandled_exception"
                     [] c.tag = "value" -> "return_value"
                     [] OTHER -> "return_void",
     !.resumes = 1, !.started = 1, !.stmts = 1]

(* The cells a done task<T> of fn can hold *)
DoneCells(fn) ==
  {set_exception(Monostate, 1)} \cup
    (IF IsVoid(fn) THEN {Monostate}
     ELSE {set_value(Monostate, v) : v \in 0 .. MaxValue})

(* test(task<T> task) once task.start() has run the coroutine to its final *)
(* suspend point                                                           *)
InitGet ==
  /\ asyncs = <<>>
  /\ syncs = <<>>
  /\ out = <<>>
  /\ ub = {}
  /\ threads = << NewThread("main", "task_get", 0, 0) >>
  /\ \E fn \in TaskFns : \E c \in DoneCells(fn) :
       /\ frames = << DoneTask(fn, c) >>
       /\ excs = IF c.tag = "exception"
                   THEN << [what |-> "Some error", by |-> "func3_lambda"] >>
                   ELSE <<>>
       /\ mainv = [prog |-> "exercise08_solution", tests |-> <<fn>>, t |-> 1,
                   sync_task |-> 0, work_done |-> 0, ref |-> 0, exc |-> 0,
                   loop |-> 0,
                   own |-> [temp |-> 0, base |-> 0, view |-> 0, gen |-> 0,
                            range |-> 0],
                   it |-> 0, n |-> 0,
                   visited |-> <<>>]

(* task.get() on the lvalue task: promise_->get(), storage get() const&.   *)
(* The outcome (value, void return, or the exception rethrown) is recorded *)
(* in out.                                                                 *)
TaskGet ==
  /\ ThreadCode(1)
  /\ threads[1].pc = "task_get"
  /\ mainv.n < MaxGets
  /\ LET r == get(frames[mainv.t].cell, frames[mainv.t].void)
     IN out' = Append(out, [who |-> "test", text |-> r.kind, val |-> r.val])
  /\ frames' = [frames EXCEPT ![mainv.t].cell = after_get_lvalue(@)]
  /\ ub' = ub \cup FrameUB(frames, mainv.t, "get on a destroyed frame")
  /\ mainv' = [mainv EXCEPT !.n = @ + 1]
  /\ UNCHANGED <<asyncs, threads, syncs, excs>>

(* test returns: the parameter task is destroyed, and with it its frame *)
EndGets ==
  /\ ThreadCode(1)
  /\ threads[1].pc = "task_get"
  /\ mainv.n > 0
  /\ frames' = promise_ptr_dtor(frames, mainv.t)
  /\ mainv' = [mainv EXCEPT !.t = 0]
  /\ threads' = [threads EXCEPT ![1].pc = "exit"]
  /\ UNCHANGED <<asyncs, syncs, excs, out, ub>>

NextGet ==
  \/ TaskGet
  \/ EndGets

SpecGet == InitGet /\ [][NextGet]_vars

(***************************************************************************)
(* The generator of exercise11_solution.cpp as an input range: the loop    *)
(* for (auto i : g()) over a generator whose body co_yields k values and    *)
(* ends, for every k in 0 .. MaxYields.                                    *)
(***************************************************************************)
(* The longest body has MaxYields co_yield statements *)
MaxYields == 5

InitRange ==
  /\ frames = <<>>
  /\ asyncs = <<>>
  /\ syncs = <<>>
  /\ excs = <<>>
  /\ out = <<>>
  /\ ub = {}
  /\ threads = << NewThread("main", "gen_call", 0, 0) >>
  /\ \E k \in 0 .. MaxYields :
       mainv = [prog |-> "range_for", tests |-> << FiniteNames[k + 1] >>,
                t |-> 0, sync_task |-> 0, work_done |-> 0, ref |-> 0,
                exc |-> 0, loop |-> 3,
                own |-> [temp |-> 0, base |-> 0, view |-> 0, gen |-> 0,
                         range |-> 0],
                it |-> 0, n |-> 0,
                visited |-> <<>>]

NextRange ==
  \/ GenCall
  \/ Begin
  \/ Test
  \/ LoopBody
  \/ Incr
  \/ LoopEnd
  \/ \E th \in DOMAIN threads : Yield(th)
  \/ \E th \in DOMAIN threads : FlowOffEnd(th)
  \/ \E th \in DOMAIN threads : ReturnFromResume(th)

SpecRange == InitRange /\ [][NextRange]_vars

(***************************************************************************)
(* zip (exercise12_solution.cpp, "the simple approach (WIP)"): main zips   *)
(* r1, the first values of iota(), with r2, the first values of            *)
(* fibonacci(); here r1 and r2 have 0 .. MaxZipLen elements each.          *)
(***************************************************************************)
(* The longest range that is zipped *)
MaxZipLen == 3

(* z1 | std::views::take(20) *)
ZipTakeCount == 20

(* The first n values fibonacci() yields: 1 1 2 3 5 ... *)
RECURSIVE FibonacciValue(_)
FibonacciValue(i) ==
  IF i <= 2 THEN 1 ELSE FibonacciValue(i - 1) + FibonacciValue(i - 2)

(* The first n values iota() yields: 0 1 2 ... *)
IotaValue(i) == i - 1

(* What a read of an object whose lifetime has ended can give, besides the *)
(* value that was there                                                    *)
Indeterminate == -1

InitZip ==
  /\ frames = <<>>
  /\ asyncs = <<>>
  /\ syncs = <<>>
  /\ excs = <<>>
  /\ out = <<>>
  /\ ub = {}
  /\ threads = << NewThread("main", "zip_ctor", 0, 0) >>
  /\ \E l1 \in 0 .. MaxZipLen : \E l2 \in 0 .. MaxZipLen :
       mainv = [prog |-> "exercise12_solution",
                r1 |-> [i \in 1 .. l1 |-> IotaValue(i)],
                r2 |-> [i \in 1 .. l2 |-> FibonacciValue(i)],
                rng1 |-> "", rng2 |-> "",
                z |-> << >>, it |-> << >>, n |-> 0, count |-> 0, v |-> << >>]

(* zip::zip(Range1 rng1, Range2 rng2): the ranges are passed by value; the *)
(* four members are iterators into the parameters rng1 and rng2, which are *)
(* destroyed when the constructor has returned.  An iterator is the        *)
(* position it points at, 1 .. size + 1.                                   *)
ZipCtor ==
  /\ ThreadCode(1)
  /\ threads[1].pc = "zip_ctor"
  /\ mainv' = [mainv EXCEPT
       !.z = [rng1_begin_ |-> 1, rng1_end_ |-> Len(mainv.r1) + 1,
              rng2_begin_ |-> 1, rng2_end_ |-> Len(mainv.r2) + 1],
       !.rng1 = "destroyed", !.rng2 = "destroyed"]
  /\ threads' = [threads EXCEPT ![1].pc = "zip_begin"]
  /\ UNCHANGED <<frames, asyncs, syncs, excs, out, ub>>

(* zip::begin(): std::pair{rng1_begin_, rng2_begin_} *)
zip_begin(z) == << z.rng1_begin_, z.rng2_begin_ >>

(* zip::end(): std::pair{rng1_end_, rng2_end_} *)
zip_end(z) == << z.rng1_end_, z.rng2_end_ >>

(* for (auto& [v1, v2] : z1 | std::views::take(20)): the loop starts at    *)
(* begin(), with the count of take.                                        *)
ZipBegin ==
  /\ ThreadCode(1)
  /\ threads[1].pc = "zip_begin"
  /\ mainv' = [mainv EXCEPT !.it = zip_begin(mainv.z), !.n = ZipTakeCount]
  /\ threads' = [threads EXCEPT ![1].pc = "zip_test"]
  /\ UNCHANGED <<frames, asyncs, syncs, excs, out, ub>>

(* The loop condition: the count of take, or operator== of std::pair on    *)
(* the pair of iterators and end(), which compares both members.           *)
ZipTest ==
  /\ ThreadCode(1)
  /\ threads[1].pc = "zip_test"
  /\ threads' = [threads EXCEPT ![1].pc =
       IF mainv.n = 0 \/ mainv.it = zip_end(mainv.z) THEN "zip_done"
       ELSE "zip_body"]
  /\ UNCHANGED <<frames, asyncs, syncs, excs, out, mainv, ub>>

(* What *it gives for an iterator at position i into a copy of r that has  *)
(* been destroyed: undefined, the value that was there or anything else.   *)
ZipDeref(r, i) ==
  {Indeterminate} \cup (IF i \in DOMAIN r THEN {r[i]} ELSE {})

(* auto& [v1, v2]: the two values are read through the two iterators of    *)
(* the pair; std::cout << "[" << v1 << ", " << v2 << "] "                   *)
ZipBody ==
  /\ ThreadCode(1)
  /\ threads[1].pc = "zip_body"
  /\ \E v1 \in ZipDeref(mainv.r1, mainv.it[1]) :
     \E v2 \in ZipDeref(mainv.r2, mainv.it[2]) :
       mainv' = [mainv EXCEPT !.v = <<v1, v2>>, !.count = @ + 1]
  /\ ub' = ub \cup {"read through an iterator into a destroyed range"}
  /\ threads' = [threads EXCEPT ![1].pc = "zip_incr"]
  /\ UNCHANGED <<frames, asyncs, syncs, excs, out>>

(* The step of the loop: both iterators of the pair advance, and take      *)
(* counts down.                                                            *)
ZipIncr ==
  /\ ThreadCode(1)
  /\ threads[1].pc = "zip_incr"
  /\ mainv' = [mainv EXCEPT !.it = << @[1] + 1, @[2] + 1 >>, !.n = @ - 1]
  /\ threads' = [threads EXCEPT ![1].pc = "zip_test"]
  /\ UNCHANGED <<frames, asyncs, syncs, excs, out, ub>>

NextZip ==
  \/ ZipCtor
  \/ ZipBegin
  \/ ZipTest
  \/ ZipBody
  \/ ZipIncr

SpecZip == InitZip /\ [][NextZip]_vars

(***************************************************************************)
(* The eager task of exercise03_solution.cpp (initial_suspend never        *)
(* suspends, unhandled_exception rethrows): main's                         *)
(*   auto c1 = f(); auto c2 = g();                                         *)
(* for coroutine functions f and g whose bodies are up to MaxStmts output  *)
(* statements followed by co_return 42 or by a throw.                      *)
(***************************************************************************)
(* The longest body has MaxStmts statements before its last one *)
MaxStmts == 2

(* The coroutine functions main calls *)
EagerFns ==
  {ReturnNames[n + 1] : n \in 0 .. MaxStmts} \cup
  {ThrowNames[n + 1] : n \in 0 .. MaxStmts}

InitEager ==
  /\ frames = <<>>
  /\ asyncs = <<>>
  /\ syncs = <<>>
  /\ excs = <<>>
  /\ out = <<>>
  /\ ub = {}
  /\ threads = << NewThread("main", "call", 0, 0) >>
  /\ mainv = [prog |-> "exercise03_solution", tests |-> <<>>, t |-> 0,
              sync_task |-> 0, work_done |-> 0, ref |-> 0, exc |-> 0,
              loop |-> 0, own |-> [c1 |-> 0, c2 |-> 0], it |-> 0, n |-> 0,
              visited |-> <<>>]

(* main calls a coroutine function: the frame is made, get_return_object   *)
(* makes the task to return (t), and as initial_suspend never suspends the *)
(* body runs inside the call.                                              *)
CallEager(fn) ==
  /\ ThreadCode(1)
  /\ threads[1].pc = "call"
  /\ frames' = Append(frames, NewFrame(fn, Kind(fn), 0, IsVoid(fn)))
  /\ mainv' = [mainv EXCEPT !.tests = Append(@, fn), !.t = Len(frames) + 1]
  /\ threads' = [threads EXCEPT
       ![1].pc = "init",
       ![1].stack = AfterCreate(@, Len(frames) + 1, Kind(fn))]
  /\ UNCHANGED <<asyncs, syncs, excs, out, ub>>

(* The call has returned: c1, then c2, is initialised with the task. *)
InitTask ==
  /\ ThreadCode(1)
  /\ threads[1].pc = "init"
  /\ mainv' = [mainv EXCEPT
       !.own = IF @.c1 = 0 THEN [@ EXCEPT !.c1 = mainv.t]
               ELSE [@ EXCEPT !.c2 = mainv.t],
       !.t = 0]
  /\ threads' = [threads EXCEPT ![1].pc = IF mainv.own.c1 = 0 THEN "call" ELSE "end_main"]
  /\ UNCHANGED <<frames, asyncs, syncs, excs, out, ub>>

(* main returns: c2 and c1 are destroyed, and their frames with them *)
EndMain ==
  /\ ThreadCode(1)
  /\ threads[1].pc = "end_main"
  /\ frames' = promise_ptr_dtor(promise_ptr_dtor(frames, mainv.own.c2), mainv.own.c1)
  /\ mainv' = [mainv EXCEPT !.own = [c1 |-> 0, c2 |-> 0]]
  /\ threads' = [threads EXCEPT ![1].pc = "exit"]
  /\ UNCHANGED <<asyncs, syncs, excs, out, ub>>

(* Mutation: unhandled_exception stores the exception in the promise. *)
eager_unhandled_exception_stores == "store"

(* task::promise_type::unhandled_exception: throw; *)
eager_unhandled_exception == "throw"

(* A throw in the body of an eager task.  unhandled_exception rethrows:    *)
(* the coroutine counts as suspended at its final suspend point and the    *)
(* exception leaves the call of the coroutine function, which is the       *)
(* resumer as the body never suspended; unwinding that call destroys the   *)
(* task that was to be returned, and with it the frame.  main has no       *)
(* handler: std::terminate.                                                *)
ThrowEager(th) ==
  \E f \in DOMAIN frames :
    /\ InBody(th, f)
    /\ frames[f].kind = "eager"
    /\ Instr(f).op = "throw"
    /\ excs' = Append(excs, [what |-> Instr(f).text, by |-> frames[f].fn])
    /\ IF eager_unhandled_exception = "throw"
         THEN /\ frames' = promise_ptr_dtor(
                   [frames EXCEPT ![f] = [final_suspend(@) EXCEPT
                      !.completed = "rethrow", !.stmts = @ + 1]], f)
              /\ threads' = [threads EXCEPT ![th].stack = Pop(@),
                                            ![th].pc = "terminate"]
              /\ mainv' = [mainv EXCEPT !.exc = Len(excs) + 1, !.t = 0]
         ELSE /\ frames' = [frames EXCEPT
                   ![f].cell = set_exception(@, Len(excs) + 1),
                   ![f].writes = @ + 1,
                   ![f].completed = "unhandled_exception",
                   ![f].phase = "final",
                   ![f].stmts = @ + 1]
              /\ threads' = threads
              /\ mainv' = mainv
    /\ UNCHANGED <<asyncs, syncs, out, ub>>

NextEager ==
  \/ \E fn \in EagerFns : CallEager(fn)
  \/ InitTask
  \/ EndMain
  \/ \E th \in DOMAIN threads : Output(th)
  \/ \E th \in DOMAIN threads : CoReturn(th)
  \/ \E th \in DOMAIN threads : ThrowEager(th)
  \/ \E th \in DOMAIN threads : FinalSuspendEager(th)
  \/ \E th \in DOMAIN threads : ReturnFromResume(th)

SpecEager == InitEager /\ [][NextEager]_vars

(***************************************************************************)
(* The start()-based harness of exercise08_solution.cpp (the same harness  *)
(* is in part_002): main calls test(example()) and then test(func3());     *)
(* test calls task.start(), sleeps 200 ms, calls task.get() and returns,   *)
(* which destroys the task.  The coroutine bodies are those of the         *)
(* generalized program (func3 ends in co_return result, which it never     *)
(* reaches).  The workers are detached threads: nothing orders their steps *)
(* with the end of the sleep.                                              *)
(***************************************************************************)
(* main: test(example()); test(func3()); *)
HarnessTests == << "example", "func3" >>

InitStart ==
  /\ frames = <<>>
  /\ asyncs = <<>>
  /\ syncs = <<>>
  /\ excs = <<>>
  /\ out = <<>>
  /\ ub = {}
  /\ threads = << NewThread("main", "call_harness", 0, 0) >>
  /\ mainv = [prog |-> "exercise08_solution", tests |-> <<>>, t |-> 0,
              sync_task |-> 0, work_done |-> 0, ref |-> 0, exc |-> 0,
              loop |-> 0,
              own |-> [temp |-> 0, base |-> 0, view |-> 0, gen |-> 0,
                       range |-> 0],
              it |-> 0, n |-> 0,
              visited |-> <<>>]

(* test(fn()): the parameter task owns the new frame *)
CallHarness ==
  /\ ThreadCode(1)
  /\ threads[1].pc = "call_harness"
  /\ Len(mainv.tests) < Len(HarnessTests)
  /\ LET fn == HarnessTests[Len(mainv.tests) + 1]
     IN /\ frames' = Append(frames, NewFrame(fn, "task", 0, IsVoid(fn)))
        /\ mainv' = [mainv EXCEPT !.tests = Append(@, fn), !.t = Len(frames) + 1,
                                  !.ref = 0, !.exc = 0]
  /\ threads' = [threads EXCEPT ![1].pc = "task_start"]
  /\ UNCHANGED <<asyncs, syncs, excs, out, ub>>

(* task.start(): the handle made from_promise of the promise, .resume() *)
TaskStart ==
  /\ ThreadCode(1)
  /\ threads[1].pc = "task_start"
  /\ frames' = [resume(frames, mainv.t) EXCEPT ![mainv.t].started = @ + 1]
  /\ ub' = ub \cup ResumeUB(frames, mainv.t)
  /\ threads' = [threads EXCEPT ![1].pc = "sleep", ![1].stack = <<mainv.t>>]
  /\ UNCHANGED <<asyncs, syncs, excs, out, mainv>>

(* std::this_thread::sleep_for(200ms) returns.  The sleep synchronizes     *)
(* with nothing: it ends wherever the workers are.                         *)
Sleep ==
  /\ ThreadCode(1)
  /\ threads[1].pc = "sleep"
  /\ threads' = [threads EXCEPT ![1].pc = "harness_get"]
  /\ UNCHANGED <<frames, asyncs, syncs, excs, out, mainv, ub>>

(* task.get(), for a non-void task inside std::cout << "Result: " << ...:  *)
(* promise_->get() reads the result cell of the task's frame.  While the   *)
(* frame is not done a worker may still write that cell (a data race);     *)
(* the read then finds whatever alternative the cell holds.                *)
HarnessGet ==
  /\ ThreadCode(1)
  /\ threads[1].pc = "harness_get"
  /\ LET t == mainv.t
         r == get(frames[t].cell, frames[t].void)
     IN /\ excs' = IF r.kind = "bad_variant_access"
                     THEN Append(excs, [what |-> "bad_variant_access", by |-> "test"])
                     ELSE excs
        /\ mainv' = [mainv EXCEPT
             !.exc = CASE r.kind = "rethrow" -> r.val
                       [] r.kind = "bad_variant_access" -> Len(excs) + 1
                       [] OTHER -> 0,
             !.n = @ + 1]
        /\ out' = IF frames[t].void THEN out
                  ELSE Append(out, [who |-> "test", text |-> "Result: ",
                                    val |-> IF r.kind = "value" THEN r.val ELSE 0])
        /\ ub' = ub \cup (IF frames[t].st = "done" THEN {}
                          ELSE {"get while the chain runs"})
        /\ threads' = [threads EXCEPT ![1].pc =
             IF r.kind \in {"rethrow", "bad_variant_access"}
               THEN "harness_catch" ELSE "harness_end"]
  /\ UNCHANGED <<frames, asyncs, syncs>>

(* catch (const std::exception& ex): "Exception caught: " << ex.what() *)
HarnessCatch ==
  /\ ThreadCode(1)
  /\ threads[1].pc = "harness_catch"
  /\ out' = Append(out, [who |-> "test", text |-> "Exception caught: ",
                         val |-> mainv.exc])
  /\ threads' = [threads EXCEPT ![1].pc = "harness_end"]
  /\ UNCHANGED <<frames, asyncs, syncs, excs, mainv, ub>>

(* test returns: the parameter task is destroyed, and with it its frame,   *)
(* the temporaries that live in it and the frames they own.  A thread that *)
(* is inside one of these frames, or a worker that still holds the handle  *)
(* of one, is left with a dangling frame.                                  *)
HarnessEnd ==
  /\ ThreadCode(1)
  /\ threads[1].pc = "harness_end"
  /\ frames' = promise_ptr_dtor(frames, mainv.t)
  /\ asyncs' = DestroyAsyncs(asyncs, frames, mainv.t)
  /\ ub' = ub \cup (IF \E th \in DOMAIN threads :
                          \/ \E i \in DOMAIN threads[th].stack :
                               threads[th].stack[i] \in Tree(frames, mainv.t)
                          \/ /\ threads[th].kind = "worker"
                             /\ threads[th].pc # "done"
                             /\ threads[th].handle \in Tree(frames, mainv.t)
                      THEN {"frame destroyed while in use"} ELSE {})
  /\ mainv' = [mainv EXCEPT !.t = 0]
  /\ threads' = [threads EXCEPT ![1].pc =
       IF Len(mainv.tests) < Len(HarnessTests) THEN "call_harness" ELSE "exit"]
  /\ UNCHANGED <<syncs, excs, out>>

NextStart ==
  \/ CallHarness
  \/ TaskStart
  \/ Sleep
  \/ HarnessGet
  \/ HarnessCatch
  \/ HarnessEnd
  \/ \E th \in DOMAIN threads : CoAwaitAsync(th)
  \/ \E th \in DOMAIN threads : WorkerInvoke(th)
  \/ \E th \in DOMAIN threads : WorkerStore(th)
  \/ \E th \in DOMAIN threads : WorkerResume(th)
  \/ \E th \in DOMAIN threads : AwaitResumeAsync(th)
  \/ \E th \in DOMAIN threads : CallCoroutine(th)
  \/ \E th \in DOMAIN threads : AwaitTask(th)
  \/ \E th \in DOMAIN threads : AwaitResumeTask(th)
  \/ \E th \in DOMAIN threads : DestroyTemp(th)
  \/ \E th \in DOMAIN threads : Output(th)
  \/ \E th \in DOMAIN threads : CoReturn(th)
  \/ \E th \in DOMAIN threads : UnhandledException(th)
  \/ \E th \in DOMAIN threads : FinalSuspendTask(th)
  \/ \E th \in DOMAIN threads : ReturnFromResume(th)

SpecStart == InitStart /\ [][NextStart]_vars

(***************************************************************************)
(* sync_await applied again to a task that is already done: test() of the  *)
(* generalized program with the statement that calls sync_await(t)         *)
(* executed up to MaxAwaits more times on the same lvalue t.  The second   *)
(* synchronized task co_awaits a done task: await_ready is true, nothing   *)
(* is offloaded, and the whole synchronized task runs inside start() on    *)
(* the calling thread.                                                     *)
(***************************************************************************)
MaxAwaits == 2

(* test(fn()) has been called: the parameter t owns the frame of fn,      *)
(* created and not started.                                                *)
InitAwait ==
  /\ asyncs = <<>>
  /\ syncs = <<>>
  /\ excs = <<>>
  /\ out = <<>>
  /\ ub = {}
  /\ threads = << NewThread("main", "make_synchronized_task", 0, 0) >>
  /\ \E fn \in TestFns :
       /\ frames = << NewFrame(fn, "task", 0, IsVoid(fn)) >>
       /\ mainv = [prog |-> "sync_await", tests |-> <<fn>>, t |-> 1,
                   sync_task |-> 0, work_done |-> 0, ref |-> 0, exc |-> 0,
                   loop |-> 0,
                   own |-> [temp |-> 0, base |-> 0, view |-> 0, gen |-> 0,
                            range |-> 0],
                   it |-> 0, n |-> 0,
                   visited |-> <<>>]

(* sync_await(t) once more, t still owning its (done) frame *)
AwaitAgain ==
  /\ ThreadCode(1)
  /\ threads[1].pc = "end_test"
  /\ mainv.n < MaxAwaits
  /\ mainv' = [mainv EXCEPT !.n = @ + 1, !.ref = 0, !.exc = 0]
  /\ threads' = [threads EXCEPT ![1].pc = "make_synchronized_task"]
  /\ UNCHANGED <<frames, asyncs, syncs, excs, out, ub>>

NextAwait ==
  \/ MakeSync
  \/ Start
  \/ Acquire
  \/ Get
  \/ Return
  \/ StreamResult
  \/ Catch
  \/ EndTest
  \/ AwaitAgain
  \/ \E th \in DOMAIN threads : CoAwaitAsync(th)
  \/ \E th \in DOMAIN threads : WorkerInvoke(th)
  \/ \E th \in DOMAIN threads : WorkerStore(th)
  \/ \E th \in DOMAIN threads : WorkerResume(th)
  \/ \E th \in DOMAIN threads : AwaitResumeAsync(th)
  \/ \E th \in DOMAIN threads : CallCoroutine(th)
  \/ \E th \in DOMAIN threads : AwaitTask(th)
  \/ \E th \in DOMAIN threads : AwaitResumeTask(th)
  \/ \E th \in DOMAIN threads : DestroyTemp(th)
  \/ \E th \in DOMAIN threads : Output(th)
  \/ \E th \in DOMAIN threads : CoReturn(th)
  \/ \E th \in DOMAIN threads : UnhandledException(th)
  \/ \E th \in DOMAIN threads : FinalSuspendTask(th)
  \/ \E th \in DOMAIN threads : FinalSuspendSync(th)
  \/ \E th \in DOMAIN threads : Notify(th)
  \/ \E th \in DOMAIN threads : ReturnContinuation(th)
  \/ \E th \in DOMAIN threads : ReturnFromResume(th)

SpecAwait == InitAwait /\ [][NextAwait]_vars

(* The threads are scheduled: a thread that can take a step is not held    *)
(* back for ever.  Every callable of the program returns or throws.        *)
SpecAwaitFair == SpecAwait /\ WF_vars(NextAwait)

(***************************************************************************)
(* std::future<int> as a coroutine return type (exercise01_solution.cpp),  *)
(* next to the hand-written function of exercise01.cpp that it replaces:   *)
(*   std::promise<int> p; auto f = p.get_future();                         *)
(*   try { int i = 42; p.set_value(i); }                                   *)
(*   catch (...) { p.set_exception(std::current_exception()); }            *)
(*   return f;                                                             *)
(* Both are run on the same body: n statements, then a return of v or a    *)
(* throw of exception v.  foo() is the body with no statement that returns *)
(* 42.  The shared state of the promise/future pair is a cell: empty,      *)
(* value or exception.                                                     *)
(***************************************************************************)
Impls == {"coroutine", "reference"}

FutureBodies ==
  [n : 0 .. MaxStmts, end : {"return", "throw"}, v : (1 .. MaxValue) \cup {42}]

foo == [n |-> 0, end |-> "return", v |-> 42]

InitFuture ==
  /\ frames = <<>>
  /\ asyncs = <<>>
  /\ syncs = <<>>
  /\ excs = <<>>
  /\ out = <<>>
  /\ ub = {}
  /\ threads = << NewThread("main", "call", 0, 0) >>
  /\ \E body \in FutureBodies :
       mainv = [prog |-> "exercise01_solution", body |-> body,
                run |-> [i \in Impls |->
                  [pc |-> "call",
                   state |-> Monostate,   \* the shared state
                   alive |-> FALSE,       \* the promise object exists
                   valid |-> FALSE,       \* the future refers to the state
                   stmts |-> 0,           \* statements of the body executed
                   escaped |-> 0,         \* exception that left the call
                   got |-> [kind |-> "", val |-> 0]]]]

(* Mutation: unhandled_exception rethrows instead of storing. *)
future_unhandled_exception_rethrows == "throw"

(* promise_type::unhandled_exception:                                      *)
(* this->set_exception(std::current_exception())                           *)
future_unhandled_exception == "store"

(* The call: the promise is constructed (std::promise<int> p in the        *)
(* reference, promise_type() in the coroutine frame), the future is taken  *)
(* from it (get_future, through get_return_object in the coroutine), and   *)
(* the body begins: initial_suspend is std::suspend_never.                 *)
FutureCall(i) ==
  /\ mainv.run[i].pc = "call"
  /\ mainv' = [mainv EXCEPT !.run[i].pc = "body",
                            !.run[i].alive = TRUE,
                            !.run[i].valid = TRUE]
  /\ UNCHANGED <<frames, asyncs, threads, syncs, excs, out, ub>>

(* One statement of the body *)
FutureStmt(i) ==
  /\ mainv.run[i].pc = "body"
  /\ mainv.run[i].stmts < mainv.body.n
  /\ mainv' = [mainv EXCEPT !.run[i].stmts = @ + 1]
  /\ out' = Append(out, [who |-> i, text |-> "statement",
                         val |-> mainv.run[i].stmts + 1])
  /\ UNCHANGED <<frames, asyncs, threads, syncs, excs, ub>>

(* The end of the body.  co_return v: return_value calls set_value(v); the *)
(* reference calls p.set_value(i).  A throw: the coroutine's               *)
(* unhandled_exception, and the reference's catch (...), call              *)
(* set_exception(std::current_exception()).                                *)
FutureEnd(i) ==
  /\ mainv.run[i].pc = "body"
  /\ mainv.run[i].stmts = mainv.body.n
  /\ LET stores == i = "reference" \/ future_unhandled_exception = "store"
     IN mainv' = [mainv EXCEPT
          !.run[i].state =
             IF mainv.body.end = "return" THEN set_value(@, mainv.body.v)
             ELSE IF stores THEN set_exception(@, mainv.body.v)
             ELSE @,
          !.run[i].escaped =
             IF mainv.body.end = "throw" /\ ~stores THEN mainv.body.v ELSE @,
          !.run[i].pc = "final"]
  /\ UNCHANGED <<frames, asyncs, threads, syncs, excs, out, ub>>

(* The exception stored by ~promise when the shared state is not ready *)
broken_promise == [tag |-> "exception", val |-> 0]

(* final_suspend is std::suspend_never: the coroutine frame is destroyed,  *)
(* and the promise with it; the reference returns f and p goes out of      *)
(* scope.  The caller has the future, unless an exception left the call.   *)
FutureReturn(i) ==
  /\ mainv.run[i].pc = "final"
  /\ mainv' = [mainv EXCEPT
       !.run[i].alive = FALSE,
       !.run[i].state = IF @ = Monostate THEN broken_promise ELSE @,
       !.run[i].valid = mainv.run[i].escaped = 0,
       !.run[i].pc = IF mainv.run[i].escaped = 0 THEN "returned" ELSE "escaped"]
  /\ UNCHANGED <<frames, asyncs, threads, syncs, excs, out, ub>>

(* foo().get(): waits until the shared state is ready, then returns the    *)
(* value or rethrows the exception; the future is no longer valid.         *)
FutureGet(i) ==
  /\ mainv.run[i].pc = "returned"
  /\ mainv.run[i].state # Monostate
  /\ mainv' = [mainv EXCEPT
       !.run[i].got = [kind |-> IF mainv.run[i].state.tag = "exception"
                                  THEN "rethrow" ELSE "value",
                       val |-> mainv.run[i].state.val],
       !.run[i].valid = FALSE,
       !.run[i].pc = "got"]
  /\ out' = Append(out, [who |-> i, text |-> "get", val |-> mainv.run[i].state.val])
  /\ UNCHANGED <<frames, asyncs, threads, syncs, excs, ub>>

NextFuture ==
  \/ \E i \in Impls : FutureCall(i)
  \/ \E i \in Impls : FutureStmt(i)
  \/ \E i \in Impls : FutureEnd(i)
  \/ \E i \in Impls : FutureReturn(i)
  \/ \E i \in Impls : FutureGet(i)

SpecFuture == InitFuture /\ [][NextFuture]_vars


(***************************************************************************)
(* Properties                                                              *)
(***************************************************************************)
(* The coroutine function the current (last started) test was called with *)
CurrentTest == mainv.tests[Len(mainv.tests)]

(* sync_await has got past sem.acquire() on sync object s *)
Acquired(s) ==
  \/ s < mainv.work_done
  \/ s = mainv.work_done /\ threads[1].pc \notin {"start", "acquire"}

(* C1: the synchronized task's final awaiter notifies (releases the        *)
(* semaphore) only after the body has stored its outcome through           *)
(* return_value, return_void or unhandled_exception; so once acquire() has *)
(* returned, sync_task.get() finds the outcome and never an unset cell of  *)
(* a non-void task.                                                        *)
C1_NotifyAfterOutcome ==
  /\ \A s \in DOMAIN syncs :
       syncs[s].notified > 0 =>
         LET S == frames[syncs[s].task]
         IN /\ S.completed \in {"return_value", "return_void", "unhandled_exception"}
            /\ S.completed = "return_value" => ~S.void /\ S.cell.tag = "pointer"
            /\ S.completed = "unhandled_exception" => S.cell.tag = "exception"
            /\ S.completed = "return_void" => S.void /\ S.cell.tag = "monostate"
  /\ threads[1].pc = "get" =>
       LET S == frames[mainv.sync_task]
       IN /\ S.completed # ""
          /\ get(S.cell, S.void).kind # "bad_variant_access"

(* acquire() has returned and get() is about to read a stored reference *)
C1_Witness ==
  /\ threads[1].pc = "get"
  /\ ThreadCode(1)
  /\ ~frames[mainv.sync_task].void
  /\ frames[mainv.sync_task].cell.tag = "pointer"

(* C2: sync_await neither returns nor throws before the wrapped task has   *)
(* reached its final suspend point, and the value it returns for func1 is  *)
(* the value the offloaded callable produced (plus 23), whenever the       *)
(* worker gets to run.                                                     *)
C2_SyncAwaitBlocks ==
  /\ threads[1].pc \in {"get", "return", "print", "catch", "end_test"} =>
       frames[mainv.t].st = "done"
  /\ threads[1].pc = "print" /\ CurrentTest = "func1" =>
       /\ mainv.ref = mainv.t
       /\ \E a \in DOMAIN asyncs :
            /\ asyncs[a].owner = mainv.t
            /\ asyncs[a].func = "func1_lambda1"
            /\ asyncs[a].cell.tag = "value"
            /\ frames[mainv.ref].cell = [tag |-> "value", val |-> asyncs[a].cell.val + 23]

(* sync_await(t) for func1 has returned; its value is about to be written *)
C2_Witness ==
  /\ threads[1].pc = "print"
  /\ CurrentTest = "func1"
  /\ frames[mainv.ref].cell.val = 65

(* C3: per sync_await call the notification happens exactly once, at the   *)
(* final suspend of the synchronized task and on the sync object passed to *)
(* start(); the semaphore count is always 0 or 1.                          *)
C3_NotifyOnce ==
  \A s \in DOMAIN syncs :
    /\ syncs[s].sem \in {0, 1}
    /\ syncs[s].notified <= 1
    /\ syncs[s].notified = 1 =>
         /\ frames[syncs[s].task].completed # ""
         /\ frames[syncs[s].task].st \in {"done", "destroyed"}
         /\ frames[syncs[s].task].sync_ = s
    /\ Acquired(s) => syncs[s].notified = 1

(* released and not yet acquired *)
C3_Witness ==
  \E s \in DOMAIN syncs :
    /\ syncs[s].notified = 1
    /\ syncs[s].sem = 1
    /\ threads[1].pc = "acquire"

(* C4: the exception thrown by func3's callable reaches the caller of      *)
(* sync_await as the same exception object, through the cell of every task *)
(* of the chain; nothing after the throw in the callable and nothing after *)
(* the failing co_await in any coroutine executes.                         *)
C4_ExceptionFidelity ==
  /\ \A i \in DOMAIN out :
       out[i].text \notin {"This will never be printed",
                           "I will never tell you that the result is: "}
  /\ \A f \in DOMAIN frames :
       /\ frames[f].fn = "func3" => frames[f].pc = 1 /\ frames[f].completed # "return_value"
       /\ frames[f].fn = "example" => frames[f].pc <= 2 /\ frames[f].completed # "return_void"
  /\ threads[1].pc \in {"return", "catch", "end_test"} /\ CurrentTest \in {"func3", "example"} =>
       /\ mainv.exc # 0
       /\ excs[mainv.exc] = [what |-> "Some error", by |-> "func3_lambda"]
       /\ \A f \in DOMAIN frames :
            f >= mainv.t /\ frames[f].fn \in {"func3", "example", "make_synchronized_task"} =>
              frames[f].cell = [tag |-> "exception", val |-> mainv.exc]
       /\ \A a \in DOMAIN asyncs :
            asyncs[a].owner >= mainv.t /\ asyncs[a].func = "func3_lambda" =>
              asyncs[a].cell = [tag |-> "exception", val |-> mainv.exc]

(* test(example()) is in its catch block with the callable's exception *)
C4_Witness ==
  /\ threads[1].pc = "catch"
  /\ CurrentTest = "example"
  /\ excs[mainv.exc].what = "Some error"

(* C5: in the task<int> chain whose inner computation produces 42 and      *)
(* whose continuation co_returns result + 23 (func1 of the sync_await      *)
(* program, func2 over func1 of the eager program), the stored result of   *)
(* the outer task is 65, and 65 is what sync_await's get() and what the    *)
(* awaiter of an awaiting coroutine (func2, eager func3) read.             *)
C5_ChainResult ==
  /\ \A f \in DOMAIN frames :
       /\ frames[f].fn \in {"func1", "func2_eager"} /\ frames[f].completed # "" =>
            /\ frames[f].completed = "return_value"
            /\ frames[f].cell = [tag |-> "value", val |-> 65]
       /\ frames[f].fn \in {"func2", "func3_eager"} /\ frames[f].resultSet =>
            frames[f].result = 65
  /\ \A i \in DOMAIN out :
       out[i].who \in {"func2", "func3_eager"} \/ out[i].text = "<< sync_await(t)" =>
         out[i].val = 65
  /\ threads[1].pc = "return" /\ CurrentTest = "func1" =>
       /\ mainv.exc = 0
       /\ mainv.ref = mainv.t
       /\ frames[mainv.ref].cell.val = 65

(* test(func1()) has written the value it got from sync_await *)
C5_Witness ==
  /\ mainv.prog = "exercise01_solution_generalized"
  /\ \E i \in DOMAIN out : out[i] = [who |-> "test", text |-> "<< sync_await(t)", val |-> 65]

(* C6: the worker stores the callable's outcome in the async's cell before *)
(* it resumes the awaiting coroutine, so await_resume never finds an unset *)
(* cell of a non-void async; func1's second callable always observes       *)
(* result = 42.                                                            *)
C6_StoreBeforeResume ==
  /\ \A w \in DOMAIN threads :
       threads[w].kind = "worker" /\ threads[w].pc \in {"resume", "done"} =>
         LET a == asyncs[threads[w].async]
         IN IF CallableIsVoid(a.func)
              THEN a.writes = 0 /\ a.cell = Monostate
              ELSE a.writes = 1 /\ a.cell.tag \in {"value", "exception"}
  /\ \A f \in DOMAIN frames :
       /\ frames[f].phase = "resumed" /\ Instr(f).op = "await_async" =>
            get(asyncs[frames[f].aw].cell,
                CallableIsVoid(asyncs[frames[f].aw].func)).kind # "bad_variant_access"
       /\ frames[f].fn = "func1" /\ frames[f].resultSet => frames[f].result = 42
  /\ \A e \in DOMAIN excs : excs[e].what # "bad_variant_access"
  /\ \A i \in DOMAIN out : out[i].who = "func1_lambda2" => out[i].val = 42

(* the second callable of func1 has printed the result of the first await *)
C6_Witness ==
  \E i \in DOMAIN out :
    out[i] = [who |-> "func1_lambda2", text |-> "Result: ", val |-> 42]

(* C7: a done task<void> or void synchronized_task whose body completed    *)
(* without throwing still has its cell unset and get() returns normally;   *)
(* one whose body threw holds the exception and get() rethrows it.         *)
C7_VoidGet ==
  /\ \A f \in DOMAIN frames :
       frames[f].void /\ frames[f].st = "done" /\ frames[f].kind \in {"task", "sync"} =>
         /\ frames[f].completed \in {"return_void", "unhandled_exception"}
         /\ frames[f].completed = "return_void" =>
              /\ frames[f].cell = Monostate
              /\ get(frames[f].cell, TRUE) = [kind |-> "void", val |-> 0]
         /\ frames[f].completed = "unhandled_exception" =>
              /\ frames[f].cell.tag = "exception"
              /\ get(frames[f].cell, TRUE) = [kind |-> "rethrow", val |-> frames[f].cell.val]
  /\ threads[1].pc = "return" /\ frames[mainv.sync_task].void =>
       /\ mainv.ref = 0
       /\ mainv.exc = 0 <=> frames[mainv.sync_task].completed = "return_void"
       /\ mainv.exc # 0 =>
            frames[mainv.sync_task].cell = [tag |-> "exception", val |-> mainv.exc]

(* sync_task.get() has returned normally for test(func2()) *)
C7_Witness ==
  /\ threads[1].pc = "return"
  /\ CurrentTest = "func2"
  /\ mainv.exc = 0
  /\ frames[mainv.sync_task].cell = Monostate
  /\ frames[mainv.t].completed = "return_void"

(* C8: every result cell (of a task, a synchronized task, an async) is     *)
(* written at most once, and a cell that holds a value or an exception     *)
(* never changes again.                                                    *)
C8_SingleWrite ==
  [][ /\ \A f \in DOMAIN frames :
          /\ frames'[f].writes <= 1
          /\ frames[f].cell # Monostate => frames'[f].cell = frames[f].cell
          /\ frames'[f].cell # frames[f].cell => frames'[f].writes = frames[f].writes + 1
      /\ \A a \in DOMAIN asyncs :
          /\ asyncs'[a].writes <= 1
          /\ asyncs[a].cell # Monostate => asyncs'[a].cell = asyncs[a].cell
          /\ asyncs'[a].cell # asyncs[a].cell => asyncs'[a].writes = asyncs[a].writes + 1
    ]_vars

(* a value has been read out of an async's cell and is still there, and a  *)
(* task's cell holds an exception                                          *)
C8_Witness ==
  /\ \E a \in DOMAIN asyncs :
       /\ asyncs[a].writes = 1
       /\ asyncs[a].cell.tag = "value"
       /\ frames[asyncs[a].owner].resultSet
  /\ \E f \in DOMAIN frames : frames[f].writes = 1 /\ frames[f].cell.tag = "exception"

(* The owners (promise_ptr members) alive in a state *)
OwnerSlots ==
  {<<"main", k>> : k \in {"t", "sync_task"}}
    \cup {<<"own", k>> : k \in DOMAIN mainv.own}
    \cup {<<"tmp", g>> : g \in {h \in DOMAIN frames : frames[h].st # "destroyed"}}

(* The frame an owner points to (0 when empty) *)
Owned(slot) ==
  CASE slot[1] = "main" -> mainv[slot[2]]
    [] slot[1] = "own" -> mainv.own[slot[2]]
    [] OTHER -> frames[slot[2]].tmp

(* How many owners point to frame f *)
OwnerRefs(f) == Cardinality({slot \in OwnerSlots : Owned(slot) = f})

(* C9: every frame is destroyed exactly once: a live frame has exactly one *)
(* owner and a destroyed one none; a frame is destroyed only in a step in  *)
(* which its owner goes away; moving an owner hands the frame over and     *)
(* empties the source; destroying the emptied owners destroys nothing; and *)
(* when main is over every frame has been destroyed.                       *)
C9_SingleOwner ==
  [][ /\ \A f \in DOMAIN frames' :
          /\ frames'[f].destroyed <= 1
          /\ frames'[f].st = "destroyed" <=> frames'[f].destroyed = 1
          /\ OwnerRefs(f)' = IF frames'[f].st = "destroyed" THEN 0 ELSE 1
      /\ \A f \in DOMAIN frames :
          frames'[f].destroyed > frames[f].destroyed =>
            OwnerRefs(f) = 1 /\ OwnerRefs(f)' = 0
      /\ threads[1].pc = "take_view" =>
          /\ mainv'.own.base = mainv.own.temp
          /\ mainv'.own.temp = 0
          /\ frames' = frames
      /\ threads[1].pc = "take_view_init" =>
          /\ mainv'.own.view = mainv.own.base
          /\ mainv'.own.base = 0
          /\ frames' = frames
      /\ threads[1].pc = "range_init_end" =>
          /\ mainv.own.base = 0 /\ mainv.own.temp = 0
          /\ frames' = frames
      /\ threads'[1].pc = "exit" =>
          \A f \in DOMAIN frames' : frames'[f].destroyed = 1
    ]_vars

(* the generator of iota() has been moved twice, the two emptied owners    *)
(* are gone, and the take_view owns the live frame                         *)
C9_Witness ==
  /\ threads[1].pc = "begin"
  /\ mainv.loop = 1
  /\ mainv.own.temp = 0 /\ mainv.own.base = 0
  /\ mainv.own.view # 0
  /\ frames[mainv.own.view].destroyed = 0

(* C10: a task or synchronized task that has not been resumed (by start()  *)
(* or by the awaiter of a co_await) has executed no statement of its body. *)
C10_LazyStart ==
  \A f \in DOMAIN frames :
    frames[f].kind \in {"task", "sync"} /\ frames[f].resumes = 0 =>
      /\ frames[f].stmts = 0
      /\ frames[f].pc = 1
      /\ frames[f].st \in {"created", "destroyed"}
      /\ frames[f].completed = ""

(* sync_await is about to call start(): the task and the synchronized task *)
(* exist and neither has run                                               *)
C10_Witness ==
  /\ threads[1].pc = "start"
  /\ frames[mainv.t].st = "created"
  /\ frames[mainv.sync_task].st = "created"
  /\ frames[mainv.t].stmts = 0

(* C11: once start() has been called on a task and has returned, the       *)
(* task's frame has been resumed: its body has begun executing and is no   *)
(* longer in the state it was created in; start() is called once per task. *)
C11_StartResumes ==
  \A f \in DOMAIN frames :
    frames[f].started > 0 /\ ThreadCode(1) /\ frames[f].st # "destroyed" =>
      /\ frames[f].started = 1
      /\ frames[f].resumes >= 1
      /\ frames[f].stmts >= 1
      /\ frames[f].st \in {"suspended", "running", "done"}

(* The task frame f is suspended in, or has been resumed from, a co_await  *)
(* of a task<T> of exercise01_solution_generalized.cpp                     *)
AwaitsTask(f) ==
  /\ frames[f].st # "destroyed"
  /\ Instr(f).op \in {"await_task", "await_lvalue"}
  /\ frames[f].phase \in {"await", "resumed"}
  /\ Awaited(f) # 0
  /\ frames[Awaited(f)].kind = "task"

AwaitedCell(f) ==
  IF Instr(f).op = "await_async" THEN asyncs[frames[f].aw].cell
  ELSE frames[Awaited(f)].cell

(* C13: an exception leaving the body of a task (or synchronized task) is  *)
(* stored in the task's cell by unhandled_exception and goes nowhere else: *)
(* in that step no thread receives an exception and the thread stays in    *)
(* the resume() call, which goes on to the final suspend point.  An        *)
(* exception appears in a coroutine body only when await_resume reads a    *)
(* cell that holds it, and in sync_await only when get() reads the cell.   *)
C13_ExceptionCaptured ==
  [][/\ \A f \in DOMAIN frames :
          /\ frames[f].kind \in {"task", "sync"}
          /\ frames[f].thr # 0
          /\ frames'[f].thr = 0
          => /\ frames'[f].cell = [tag |-> "exception", val |-> frames[f].thr]
             /\ frames'[f].completed = "unhandled_exception"
             /\ frames'[f].st = "running" /\ frames'[f].phase = "final"
             /\ mainv' = mainv
             /\ threads' = threads
     /\ \A f \in DOMAIN frames :
          /\ frames[f].kind \in {"task", "sync"}
          /\ frames[f].thr = 0
          /\ frames'[f].thr # 0
          => /\ frames[f].phase = "resumed"
             /\ \/ check_and_rethrow(AwaitedCell(f)) = frames'[f].thr
                \/ /\ AwaitedCell(f).tag = "monostate"
                   /\ excs'[frames'[f].thr].what = "bad_variant_access"
     /\ /\ mainv.prog = "exercise01_solution_generalized"
        /\ mainv'.exc # mainv.exc
        /\ mainv'.exc # 0
        => /\ threads[1].pc = "get"
           /\ \/ check_and_rethrow(frames[mainv.sync_task].cell) = mainv'.exc
              \/ /\ frames[mainv.sync_task].cell.tag = "monostate"
                 /\ excs'[mainv'.exc].what = "bad_variant_access"
     /\ \A t \in DOMAIN threads :
          /\ mainv.prog = "exercise01_solution_generalized"
          /\ threads'[t].exc # threads[t].exc
          => threads[t].kind = "worker" /\ threads[t].pc = "invoke"
    ]_vars

(* func3's exception has travelled cell by cell: it is stored in func3's   *)
(* cell and in the synchronized task's cell, and sync_await has rethrown   *)
(* it from get()                                                           *)
C13_Witness ==
  /\ threads[1].pc = "return"
  /\ mainv.exc # 0
  /\ mainv.t # 0 /\ mainv.sync_task # 0
  /\ frames[mainv.t].fn = "func3"
  /\ frames[mainv.t].completed = "unhandled_exception"
  /\ frames[mainv.t].cell = [tag |-> "exception", val |-> mainv.exc]
  /\ frames[mainv.sync_task].completed = "unhandled_exception"
  /\ frames[mainv.sync_task].cell = [tag |-> "exception", val |-> mainv.exc]
  /\ excs[mainv.exc].what = "Some error"

(* The worker thread started for async a (0 before it exists) *)
Worker(a) ==
  IF \E w \in DOMAIN threads : threads[w].kind = "worker" /\ threads[w].async = a
    THEN CHOOSE w \in DOMAIN threads : threads[w].kind = "worker" /\ threads[w].async = a
    ELSE 0

(* C14: an exception thrown by an async's callable is kept: once the       *)
(* worker is past its catch block the async's cell holds that exception,   *)
(* the worker goes on to resume the awaiting coroutine, and await_resume   *)
(* rethrows that exception in the coroutine.  Whether the callable         *)
(* returned or threw, the worker resumes the awaiting coroutine exactly    *)
(* once: not before it has stored, and once it has.                        *)
C14_AsyncException ==
  \A a \in DOMAIN asyncs :
    LET w == Worker(a)
        f == asyncs[a].owner
    IN w # 0 =>
         /\ threads[w].handle = f
         /\ threads[w].pc \in {"invoke", "store", "resume", "done"}
         /\ asyncs[a].resumed = (IF threads[w].pc = "done" THEN 1 ELSE 0)
         /\ threads[w].exc # 0 /\ threads[w].pc = "resume" =>
               /\ asyncs[a].alive
               /\ asyncs[a].cell = [tag |-> "exception", val |-> threads[w].exc]
               /\ frames[f].st = "suspended" /\ frames[f].aw = a
         /\ threads[w].exc # 0 /\ frames[f].aw = a /\ frames[f].phase = "temp" =>
               /\ threads[w].pc = "done"
               /\ frames[f].thr = threads[w].exc

(* func3 has been resumed once by the worker whose callable threw, and     *)
(* await_resume has rethrown "Some error" in func3                         *)
C14_Witness ==
  \E a \in DOMAIN asyncs :
    /\ asyncs[a].func = "func3_lambda"
    /\ Worker(a) # 0
    /\ threads[Worker(a)].exc # 0
    /\ excs[threads[Worker(a)].exc].what = "Some error"
    /\ asyncs[a].resumed = 1
    /\ frames[asyncs[a].owner].phase = "temp"
    /\ frames[asyncs[a].owner].aw = a
    /\ frames[asyncs[a].owner].thr = threads[Worker(a)].exc

(* The chain of the test in progress has suspended at an async: the        *)
(* frames and asyncs of the test are those created since its task t        *)
Offloaded ==
  /\ mainv.prog = "exercise01_solution_generalized"
  /\ mainv.t # 0
  /\ asyncs # <<>>
  /\ asyncs[Len(asyncs)].owner >= mainv.t

(* C15: once the chain has suspended at an async, every step of a          *)
(* coroutine body of the chain is taken by the worker thread of the latest *)
(* async of the chain, and the thread that called sync_await (start()) is  *)
(* no longer inside any resume() call.                                     *)
C15_RunsOnWorker ==
  /\ [](Offloaded => threads[1].stack = <<>>)
  /\ [][Offloaded =>
         \A f \in DOMAIN frames : \A th \in DOMAIN threads :
           InBody(th, f) /\ frames'[f] # frames[f] =>
             /\ th = Worker(Len(asyncs))
             /\ th # 1
             /\ th # asyncs[Len(asyncs)].by]_vars

(* The worker of func1's first async is running func2, the continuation of *)
(* func1, after func1 finished on the worker of its second async; the      *)
(* thread that called sync_await waits for the semaphore                   *)
C15_Witness ==
  /\ Offloaded
  /\ threads[1].pc = "acquire"
  /\ \E f \in DOMAIN frames :
       /\ frames[f].fn = "func2"
       /\ frames[f].phase = "exec"
       /\ Instr(f).op = "print"
       /\ InBody(Worker(Len(asyncs)), f)
       /\ asyncs[Len(asyncs)].owner # f

(* C16: co_await on an async always suspends the coroutine and starts a    *)
(* new thread: until that thread resumes it the coroutine stays suspended  *)
(* in the co_await, and the callable is called by that new thread only,    *)
(* never by the thread that executed the co_await.                         *)
C16_AsyncSuspends ==
  \A a \in DOMAIN asyncs :
    /\ asyncs[a].spawned = asyncs[a].awaited
    /\ Worker(a) # 0
    /\ Worker(a) > asyncs[a].by
    /\ asyncs[a].invoker \in {0, Worker(a)}
    /\ asyncs[a].invoked > 0 => asyncs[a].invoker = Worker(a)
    /\ asyncs[a].resumed = 0 /\ asyncs[a].alive =>
          /\ frames[asyncs[a].owner].st = "suspended"
          /\ frames[asyncs[a].owner].phase = "await"
          /\ frames[asyncs[a].owner].aw = a
          /\ \A th \in DOMAIN threads : ~InBody(th, asyncs[a].owner)

(* func1's second async was awaited on the worker of the first one; a      *)
(* third thread has called its callable while func1 is suspended           *)
C16_Witness ==
  \E a \in DOMAIN asyncs :
    /\ asyncs[a].func = "func1_lambda2"
    /\ threads[asyncs[a].by].kind = "worker"
    /\ asyncs[a].invoked = 1
    /\ asyncs[a].invoker = Worker(a)
    /\ asyncs[a].invoker # asyncs[a].by
    /\ asyncs[a].resumed = 0
    /\ frames[asyncs[a].owner].st = "suspended"

(* The worker threads started for async a *)
Workers(a) ==
  {w \in DOMAIN threads : threads[w].kind = "worker" /\ threads[w].async = a}

(* C17: every async object is awaited once, one worker thread is started   *)
(* for it, and its callable is called once: not yet while the worker is at *)
(* the call, exactly once from then on.                                    *)
C17_OncePerAsync ==
  \A a \in DOMAIN asyncs :
    /\ asyncs[a].awaited = 1
    /\ asyncs[a].spawned = 1
    /\ Cardinality(Workers(a)) = 1
    /\ \A w \in Workers(a) :
         asyncs[a].invoked =
           (IF threads[w].pc = "invoke" /\ threads[w].ip = 1 THEN 0 ELSE 1)

(* Both asyncs of func1 have been awaited, each has its own worker, and    *)
(* each callable has been called once; both workers are over               *)
C17_Witness ==
  \E a, b \in DOMAIN asyncs :
    /\ asyncs[a].func = "func1_lambda1" /\ asyncs[b].func = "func1_lambda2"
    /\ asyncs[a].owner = asyncs[b].owner
    /\ asyncs[a].invoked = 1 /\ asyncs[b].invoked = 1
    /\ Workers(a) # Workers(b)
    /\ \A w \in Workers(a) \cup Workers(b) :
         threads[w].pc = "done" /\ threads[w].stack = <<>>

(* C18: a coroutine whose body is over stays at its final suspend point,   *)
(* with its frame and its cell, for as long as the task object that owns   *)
(* it exists: the frame is not destroyed, the cell holds the outcome the   *)
(* body ended with, and nothing changes it; the frame is destroyed in the  *)
(* step in which its owner goes away, not before.                          *)
C18_FrameOutlivesBody ==
  /\ [](\A f \in DOMAIN frames :
          frames[f].phase = "done" =>
            IF OwnerRefs(f) = 1
              THEN /\ frames[f].st = "done"
                   /\ frames[f].destroyed = 0
                   /\ frames[f].completed = "return_value" =>
                         frames[f].cell.tag \in {"value", "pointer"}
                   /\ frames[f].completed = "unhandled_exception" =>
                         frames[f].cell.tag = "exception"
              ELSE /\ OwnerRefs(f) = 0
                   /\ frames[f].st = "destroyed")
  /\ [][\A f \in DOMAIN frames :
          frames[f].st = "done" =>
            /\ frames'[f].st \in {"done", "destroyed"}
            /\ frames'[f].cell = frames[f].cell
            /\ frames'[f].st = "destroyed" => OwnerRefs(f)' = 0]_vars

(* func3 ended with an exception long ago; sync_await has since read the   *)
(* synchronized task and destroyed it, and the parameter t of test still   *)
(* owns func3's frame, done, with the exception in its cell                *)
C18_Witness ==
  /\ threads[1].pc = "catch"
  /\ mainv.t # 0
  /\ frames[mainv.t].fn = "func3"
  /\ frames[mainv.t].st = "done"
  /\ frames[mainv.t].destroyed = 0
  /\ frames[mainv.t].cell.tag = "exception"
  /\ OwnerRefs(mainv.t) = 1
  /\ mainv.sync_task = 0

(* C19: every get() on a done task, called through the task lvalue, gives  *)
(* the outcome the cell holds -- the same value, the same exception, or a  *)
(* plain return for void -- however many times it is called, and it leaves *)
(* the cell and the state of the task as they were.                        *)
C19_GetIdempotent ==
  /\ [](mainv.t # 0 =>
          /\ frames[mainv.t].st = "done"
          /\ frames[mainv.t].destroyed = 0
          /\ Len(out) = mainv.n
          /\ \A i \in DOMAIN out :
               /\ out[i] = out[1]
               /\ out[i].text = get(frames[mainv.t].cell, frames[mainv.t].void).kind
               /\ out[i].val = get(frames[mainv.t].cell, frames[mainv.t].void).val
               /\ out[i].text \in {"value", "void", "rethrow"}
               /\ out[i].text = "void" <=> frames[mainv.t].void /\ excs = <<>>)
  /\ [][mainv.t # 0 /\ mainv'.t # 0 => frames' = frames]_vars

(* get() has been called MaxGets times on a done task<int> holding 5 *)
C19_Witness ==
  /\ mainv.prog = "exercise08_solution"
  /\ mainv.t # 0
  /\ mainv.n = MaxGets
  /\ MaxGets >= 2
  /\ frames[mainv.t].cell = [tag |-> "value", val |-> 5]
  /\ out[MaxGets].val = 5

(* The generator g of main of part_005 *)
G == mainv.own.gen

(* C20: in while (g.next()) over simple(): nothing of the body runs before *)
(* the first next(); each next() resumes the coroutine once; next()        *)
(* returns true with the coroutine suspended at a co_yield, and value() is *)
(* then the operand of that co_yield; the loop prints 1, then 2, and the   *)
(* third next() finds the coroutine at its final suspend point and ends    *)
(* the loop.                                                               *)
C20_NextValue ==
  mainv.prog = "part_005" /\ G # 0 =>
    /\ frames[G].resumes = mainv.n
    /\ mainv.n = 0 => frames[G].st = "created" /\ frames[G].stmts = 0 /\ out = <<>>
    /\ threads[1].pc = "value" =>
          /\ frames[G].st = "suspended"
          /\ frames[G].pc > 1
          /\ Body("simple")[frames[G].pc - 1].op = "co_yield"
          /\ frames[G].value = YieldValue(Body("simple")[frames[G].pc - 1].e, frames[G])
          /\ frames[G].value = mainv.n
    /\ threads[1].pc = "simple_end" => frames[G].st = "done"
    /\ \A i \in DOMAIN out : out[i].val = i /\ i <= 2
    /\ mainv.n >= 3 /\ ThreadCode(1) =>
          /\ mainv.n = 3
          /\ frames[G].st = "done"
          /\ threads[1].pc \in {"next_done", "simple_end"}
          /\ out = << [who |-> "main", text |-> "", val |-> 1],
                      [who |-> "main", text |-> "", val |-> 2] >>

(* The values the body of the generator under iteration co_yields, in      *)
(* yield order                                                             *)
YieldOrder == [i \in 1 .. FiniteCount(mainv.tests[1]) |-> i]

(* s is an initial segment of t *)
IsPrefix(s, t) == Len(s) <= Len(t) /\ \A i \in 1 .. Len(s) : s[i] = t[i]

(* C21: iterating a generator as an input range visits every co_yielded   *)
(* value exactly once and in yield order: begin() resumes the coroutine to *)
(* its first co_yield, each operator++ resumes it to the next one, and the *)
(* iterator equals end() exactly when the body has finished (immediately   *)
(* after begin() for a body that yields nothing).                          *)
C21_InputRange ==
  \A f \in DOMAIN frames :
    /\ IsPrefix(mainv.visited, frames[f].yielded)
    /\ IsPrefix(frames[f].yielded, YieldOrder)
    /\ Len(frames[f].yielded) <= Len(mainv.visited) + 1
    /\ (ThreadCode(1) /\ threads[1].pc \in {"test", "body"}) =>
         /\ mainv.it = f
         /\ frames[f].resumes = Len(mainv.visited) + 1
         /\ AtEnd <=> frames[f].completed = "end_of_body"
         /\ AtEnd <=> (Len(frames[f].yielded) = Len(mainv.visited)
                         /\ mainv.visited = YieldOrder)
         /\ ~AtEnd =>
              /\ Len(frames[f].yielded) = frames[f].resumes
              /\ frames[f].value = frames[f].yielded[frames[f].resumes]
         /\ threads[1].pc = "body" => ~AtEnd
    /\ (ThreadCode(1) /\ threads[1].pc = "incr") =>
         frames[f].resumes = Len(mainv.visited)
    /\ threads[1].pc \in {"loop_end", "exit"} =>
         /\ mainv.visited = YieldOrder
         /\ frames[f].yielded = YieldOrder
         /\ frames[f].resumes = Len(YieldOrder) + 1
         /\ frames[f].completed = "end_of_body"

(* A loop over three values has ended, and so has one over none. *)
C21_Witness ==
  /\ threads[1].pc = "loop_end"
  /\ mainv.prog = "range_for"
  /\ mainv.visited = <<1, 2, 3>>

(* The loop over a body that yields nothing ends right after begin(). *)
C21_WitnessEmpty ==
  /\ threads[1].pc = "loop_end"
  /\ mainv.prog = "range_for"
  /\ FiniteCount(mainv.tests[1]) = 0
  /\ frames[1].resumes = 1

(* The size of the shorter of the two zipped ranges *)
Shorter == IF Len(mainv.r1) <= Len(mainv.r2) THEN Len(mainv.r1) ELSE Len(mainv.r2)

(* C22: zip(r1, r2) yields the pairs (r1[0], r2[0]), (r1[1], r2[1]), ...   *)
(* of consecutive elements of each range, and when the ranges differ in    *)
(* size generation stops at the end of the shorter range.                  *)
C22_ZipPairs ==
  /\ mainv.count <= Shorter
  /\ mainv.count > 0 =>
       mainv.v = << mainv.r1[mainv.count], mainv.r2[mainv.count] >>
  /\ threads[1].pc = "zip_done" => mainv.count = Shorter

(* The steps of the life of a task: created-suspended -> running ->        *)
(* (suspended at an await <-> running) -> done; a done task is destroyed   *)
(* with the task object that owns it.                                      *)
TaskSteps ==
  { <<"created", "running">>, <<"running", "suspended">>,
    <<"suspended", "running">>, <<"running", "done">>,
    <<"done", "destroyed">> }

(* C23: every task follows created-suspended, then running, then any      *)
(* number of alternations between suspended-at-an-await and running, then  *)
(* done: done is entered exactly once, and no task ever returns to         *)
(* created-suspended or leaves done (other than by being destroyed).       *)
C23_TaskLifecycle ==
  /\ [](\A f \in DOMAIN frames :
          frames[f].kind = "task" =>
            /\ frames[f].st = "suspended" => frames[f].phase = "await"
            /\ frames[f].st = "created" => frames[f].resumes = 0
            /\ frames[f].st = "done" => frames[f].completed # "")
  /\ [][\A f \in DOMAIN frames' :
          frames'[f].kind = "task" =>
            IF f \in DOMAIN frames
              THEN \/ frames'[f].st = frames[f].st
                   \/ <<frames[f].st, frames'[f].st>> \in TaskSteps
              ELSE frames'[f].st = "created"]_vars

(* A task that was suspended at an await and resumed is done. *)
C23_Witness ==
  \E f \in DOMAIN frames :
    /\ frames[f].kind = "task"
    /\ frames[f].st = "done"
    /\ frames[f].resumes >= 2

(* The threads that have frame f among the frames they are running *)
Runners(f) ==
  {th \in DOMAIN threads :
     \E i \in DOMAIN threads[th].stack : threads[th].stack[i] = f}

(* C24: each suspension of a coroutine frame is ended by exactly one       *)
(* resume: no frame is resumed while it is running, no frame is resumed    *)
(* after it is done, and no two actors (main thread, workers, final        *)
(* awaiters) resume the same suspension.                                   *)
C24_OneResumePerSuspension ==
  /\ []("resume" \notin ub)
  /\ [](\A f \in DOMAIN frames :
          /\ Cardinality(Runners(f)) <= 1
          /\ frames[f].st # "running" => Runners(f) = {})
  /\ [][\A f \in DOMAIN frames :
          frames'[f].resumes # frames[f].resumes =>
            /\ frames'[f].resumes = frames[f].resumes + 1
            /\ frames[f].st \in {"created", "suspended"}
            /\ frames'[f].st = "running"]_vars

(* A frame has been resumed by the main thread, by a worker and by the     *)
(* final awaiter of a task it awaited.                                     *)
C24_Witness ==
  \E f \in DOMAIN frames : \E g \in DOMAIN frames : \E h \in DOMAIN frames :
    /\ frames[f].kind = "sync" /\ frames[f].resumes = 2
    /\ frames[g].fn = "func1" /\ frames[g].resumes = 3
    /\ frames[h].fn = "example" /\ frames[h].resumes = 3
    /\ frames[h].st = "done"

(* The threads that are inside a resume() call, executing coroutine bodies *)
Executing == {th \in DOMAIN threads : threads[th].stack # <<>>}

(* Thread th has made the handle.resume() call of its lambda `work` and    *)
(* that call has handed the chain on.                                      *)
HandedOn(th) ==
  /\ threads[th].kind = "worker"
  /\ asyncs[threads[th].async].resumed >= 1
  /\ threads[th].stack = <<>>

(* The main thread is in sync_await, past sync_task.start(), and the       *)
(* semaphore has not been released.                                        *)
Blocked ==
  /\ threads[1].pc = "acquire"
  /\ threads[1].stack = <<>>
  /\ syncs[mainv.work_done].sem = 0

(* A step in which a body statement is executed is taken by the one thread *)
(* that is executing; a worker that handed on and the blocked main thread  *)
(* do not enter a body.                                                    *)
ChainStep ==
  /\ \A f \in DOMAIN frames :
       frames'[f].stmts # frames[f].stmts =>
         \E t \in DOMAIN threads :
           /\ InBody(t, f)
           /\ Executing = {t}
           /\ ~HandedOn(t)
           /\ (t = 1 => ~Blocked)
  /\ \A th \in DOMAIN threads : HandedOn(th) => threads'[th].stack = <<>>
  /\ (Blocked => threads'[1].stack = <<>>)

(* C25: at any moment at most one thread is executing coroutine-body code  *)
(* of a given await chain: a worker that spawned the next worker from      *)
(* await_suspend executes no further body step of the chain, and the       *)
(* thread blocked in sync_await executes none until the semaphore is       *)
(* released.                                                               *)
C25_OneThreadPerChain ==
  /\ [](Cardinality(Executing) <= 1)
  /\ [][ChainStep]_vars

(* The main thread is blocked in sync_await, a first worker has handed the *)
(* chain on and a second worker is executing the body of func1.            *)
C25_Witness ==
  /\ Blocked
  /\ \E w1 \in DOMAIN threads : \E w2 \in DOMAIN threads :
       /\ HandedOn(w1)
       /\ w2 # w1
       /\ threads[w2].kind = "worker"
       /\ InBody(w2, threads[w2].handle)
       /\ frames[threads[w2].handle].fn = "func1"
       /\ asyncs[threads[w2].async].by = w1

(* Frame f has got past its first co_await *)
PastFirstAwait(f) ==
  \/ frames[f].pc > 1
  \/ frames[f].pc = 1 /\ frames[f].phase \in {"resumed", "temp"}

(* A task of coroutine function fn that frame f awaited has reached done   *)
(* (and may have been destroyed since).                                    *)
AwaitedDone(f, fn) ==
  \E t \in DOMAIN frames :
    /\ frames[t].fn = fn
    /\ frames[t].continuation = f
    /\ frames[t].completed # ""
    /\ frames[t].st \in {"done", "destroyed"}

(* C26: within one await chain, completions and resumptions happen in      *)
(* strict program order: in example() -> func2() -> func1(), func1 reaches *)
(* done before func2 continues, func2 reaches done before example          *)
(* continues, and func3's body does not begin until func2 is done; the     *)
(* second async's output of result precedes func2's output of the result   *)
(* of func1.                                                               *)
C26_ProgramOrder ==
  /\ \A f \in DOMAIN frames :
       /\ (frames[f].fn = "func2" /\ PastFirstAwait(f)) => AwaitedDone(f, "func1")
       /\ (frames[f].fn = "example" /\ PastFirstAwait(f)) => AwaitedDone(f, "func2")
       /\ (frames[f].fn = "example" /\ frames[f].tmp # 0
             /\ frames[frames[f].tmp].fn = "func3") => AwaitedDone(f, "func2")
       /\ (frames[f].fn = "func3" /\ frames[f].continuation # 0
             /\ frames[frames[f].continuation].fn = "example") =>
            AwaitedDone(frames[f].continuation, "func2")
  /\ \A j \in DOMAIN out :
       out[j].who = "func2" =>
         \E i \in 1 .. j - 1 :
           /\ out[i].who = "func1_lambda2"
           /\ out[i].val = 42
           /\ out[j].val = 65
           /\ \A k \in i + 1 .. j - 1 : out[k].who # "func2"

(* example() has awaited func2(), whose output is there, and the body of   *)
(* func3() has begun.                                                      *)
C26_Witness ==
  \E f \in DOMAIN frames :
    /\ frames[f].fn = "example"
    /\ frames[f].tmp # 0
    /\ frames[frames[f].tmp].fn = "func3"
    /\ frames[frames[f].tmp].stmts > 0
    /\ \E j \in DOMAIN out : out[j].who = "func2"

(* Task f has been started or awaited and has not reached done *)
Pending(f) ==
  /\ frames[f].kind = "task"
  /\ frames[f].resumes >= 1
  /\ frames[f].st \in {"running", "suspended"}

(* C27: once a task has been started or awaited, and provided every        *)
(* offloaded callable returns or throws and worker threads are scheduled   *)
(* fairly, the task eventually reaches done; nothing can abort it or leave *)
(* it suspended forever at an intermediate await.  (Whenever tasks are     *)
(* pending, a state follows in which none is; a pending task leaves that   *)
(* condition only by reaching done.)                                       *)
C27_EventuallyDone ==
  /\ (\E f \in DOMAIN frames : Pending(f))
       ~> (\A f \in DOMAIN frames : ~Pending(f))
  /\ [][\A f \in DOMAIN frames :
          (Pending(f) /\ ~Pending(f)') => frames'[f].st = "done"]_vars

(* func3, suspended at its co_await until the worker threw, is done. *)
C27_Witness ==
  \E f \in DOMAIN frames :
    /\ frames[f].kind = "task"
    /\ frames[f].fn = "func3"
    /\ frames[f].resumes = 2
    /\ frames[f].st = "done"
    /\ frames[f].completed = "unhandled_exception"

(* The frame of broken() in the third loop of main *)
Broken(f) == frames[f].fn = "broken"

(* C28: a generator body that throws propagates the exception              *)
(* synchronously to the consumer out of the resume performed by begin() or *)
(* operator++: for broken(), the value 1 is delivered to the consumer      *)
(* first, then the runtime_error reaches the consumer's catch block, and   *)
(* the value 2 is never delivered.                                         *)
C28_GeneratorThrows ==
  \A f \in DOMAIN frames :
    Broken(f) =>
      /\ IsPrefix(frames[f].yielded, <<1>>)
      /\ frames[f].resumes >= 1 => IsPrefix(mainv.visited, <<1>>)
      /\ frames[f].stmts <= 2
      /\ frames[f].stmts = 2 =>
           /\ frames[f].completed = "rethrow"
           /\ frames[f].resumes = 2
           /\ mainv.visited = <<1>>
           /\ threads[1].pc \in {"unwind", "catch_main", "exit"}
           /\ threads[1].stack = <<>>
           /\ mainv.exc = Len(excs)
           /\ excs[mainv.exc] = [what |-> "Some error\n", by |-> "broken"]
      /\ threads[1].pc = "exit" =>
           /\ out[Len(out)] =
                [who |-> "main", text |-> "Unhandled exception: ", val |-> mainv.exc]
           /\ out[Len(out) - 1] = [who |-> "main", text |-> "", val |-> 1]

(* main has caught the exception of broken() after it was given 1. *)
C28_Witness ==
  /\ mainv.prog = "exercise11_solution_generator"
  /\ threads[1].pc = "exit"
  /\ mainv.visited = <<1>>
  /\ mainv.exc # 0
  /\ out[Len(out)].text = "Unhandled exception: "

(* The body of eager frame f has executed its throw statement *)
Thrown(f) ==
  /\ frames[f].kind = "eager"
  /\ Body(frames[f].fn)[frames[f].pc].op = "throw"
  /\ frames[f].stmts = frames[f].pc

(* C29: in the eager task variant (initial_suspend never suspends,         *)
(* unhandled_exception rethrows), an exception thrown in the coroutine     *)
(* body propagates synchronously to the caller that invoked the coroutine  *)
(* function, and is not stored in the task.                                *)
C29_EagerRethrow ==
  /\ \A f \in DOMAIN frames :
       Thrown(f) =>
         /\ frames[f].cell = Monostate
         /\ frames[f].writes = 0
         /\ frames[f].completed = "rethrow"
         /\ f = Len(frames)
         /\ mainv.own.c1 # f /\ mainv.own.c2 # f
         /\ threads[1].pc = "terminate"
         /\ threads[1].stack = <<>>
         /\ mainv.exc = Len(excs)
         /\ excs[mainv.exc].by = frames[f].fn
  /\ threads[1].pc = "terminate" <=> excs # <<>>
  /\ Len(excs) <= 1

(* The second coroutine main called threw after two statements; the first  *)
(* had returned its task.                                                  *)
C29_Witness ==
  /\ mainv.prog = "exercise03_solution"
  /\ threads[1].pc = "terminate"
  /\ mainv.own.c1 = 1
  /\ Len(frames) = 2
  /\ Thrown(2)
  /\ frames[2].stmts = 3
  /\ frames[1].cell = set_value(Monostate, 42)

(* The output of main of the eager run -> func3 -> func2 -> func1 chain *)
EagerOutput ==
  << [who |-> "func2_eager", text |-> "Result of func1: ", val |-> 42],
     [who |-> "func3_eager", text |-> "Result of func2: ", val |-> 65] >>

(* C30: in the eager task variant (initial_suspend never suspends,         *)
(* final_suspend always suspends, synchronous bodies), by the time the     *)
(* coroutine function returns the task object the body has run to its      *)
(* final suspend point, so get_result() returns the co_returned value,     *)
(* every co_await of such a task finds it done and does not suspend, and   *)
(* main of the run -> func3 -> func2 -> func1 chain outputs the result of  *)
(* func1 (42) before the result of func2 (65).                             *)
C30_EagerRunsToEnd ==
  mainv.prog = "exercise11_solution_task" =>
    /\ \A f \in DOMAIN frames :
         /\ frames[f].kind = "eager"
         /\ frames[f].st # "suspended"
         /\ frames[f].st = "running" <=> Runners(f) # {}
         /\ Runners(f) = {} =>
              /\ frames[f].completed \in {"return_value", "return_void"}
              /\ frames[f].fn = "func1_eager" => frames[f].cell = set_value(Monostate, 42)
              /\ frames[f].fn = "func2_eager" => frames[f].cell = set_value(Monostate, 65)
         /\ (frames[f].phase = "awaiting" /\ Runners(frames[f].tmp) = {}) =>
              await_ready(frames, frames[f].tmp)
         /\ frames[f].resultSet =>
              frames[f].result = IF frames[f].fn = "func2_eager" THEN 42 ELSE 65
         /\ frames[f].resumes = 0
    /\ IsPrefix(out, EagerOutput)
    /\ threads[1].pc \in {"end_run", "exit"} /\ ThreadCode(1) => out = EagerOutput
    /\ ub = {}

(* run() has returned its task to main: the chain is done and both results *)
(* are in the output.                                                      *)
C30_Witness ==
  /\ mainv.prog = "exercise11_solution_task"
  /\ threads[1].pc = "end_run"
  /\ ThreadCode(1)
  /\ frames[mainv.t].st = "done"
  /\ out = EagerOutput


(***************************************************************************)
(* C31: in the start()-based harness, under every scheduling, main's get() *)
(* and the destruction of the task's frames come only after the whole      *)
(* chain is done: once get() has been called the task's frame is done, a   *)
(* frame that was destroyed had reached its final suspend point, main      *)
(* never reads the cell while a worker may write it and no worker resumes  *)
(* or runs a destroyed frame (no undefined event).                         *)
(***************************************************************************)
C31_GetAfterDone ==
  /\ ub = {}
  /\ (threads[1].pc \in {"harness_catch", "harness_end"} /\ mainv.t # 0)
       => frames[mainv.t].st = "done"
  /\ \A f \in DOMAIN frames :
       frames[f].st = "destroyed" => frames[f].phase = "done"

(***************************************************************************)
(* C32: in the sync_await-based program nothing is destroyed while a       *)
(* thread still uses it: no thread is inside the body of a destroyed       *)
(* frame, no worker that has yet to call func_, store or resume holds the  *)
(* handle of a destroyed frame or a dead async, no thread that has yet to  *)
(* notify holds a dead sync; and from the moment sync_await is left, until *)
(* test has destroyed the task, every worker is out of the chain: its      *)
(* lambda has made its resume() call and the thread is inside no frame and *)
(* holds no handle it will still resume.                                   *)
(***************************************************************************)
InUse(th, f) ==
  \/ \E i \in DOMAIN threads[th].stack : threads[th].stack[i] = f
  \/ /\ threads[th].kind = "worker"
     /\ threads[th].pc \in {"invoke", "store", "resume"}
     /\ threads[th].handle = f
  \/ /\ threads[th].susp = "continuation"
     /\ threads[th].lcont = f

C32_NoUseAfterDestroy ==
  mainv.prog = "exercise01_solution_generalized" =>
    /\ ub = {}
    /\ \A th \in DOMAIN threads :
         /\ \A f \in DOMAIN frames :
              InUse(th, f) => frames[f].st # "destroyed"
         /\ (threads[th].kind = "worker"
               /\ threads[th].pc \in {"invoke", "store", "resume"})
              => asyncs[threads[th].async].alive
         /\ (threads[th].susp = "notify" /\ threads[th].lsync # 0)
              => syncs[threads[th].lsync].alive
    /\ threads[1].pc \in {"return", "print", "catch", "end_test"} =>
         \A th \in DOMAIN threads :
           threads[th].kind = "worker" =>
             /\ threads[th].pc = "done"
             /\ \A f \in DOMAIN frames : ~InUse(th, f)

(* test(example()) is over and has destroyed example's frame, while the    *)
(* worker that completed the chain is still returning from the final       *)
(* awaiter of the synchronized task                                        *)
C32_Witness ==
  /\ mainv.prog = "exercise01_solution_generalized"
  /\ mainv.tests # <<>>
  /\ CurrentTest = "example"
  /\ mainv.t = 0
  /\ \E f \in DOMAIN frames :
       frames[f].fn = "example" /\ frames[f].st = "destroyed"
  /\ \E th \in DOMAIN threads :
       threads[th].kind = "worker" /\ threads[th].susp = "continuation"

(***************************************************************************)
(* C33: in the final awaiter of synchronized_task, once the semaphore has  *)
(* been released the notifying thread works on its local copy of the       *)
(* promise only: the step that returns the continuation changes neither    *)
(* the frame of a synchronized task nor a sync object and raises no        *)
(* undefined event, also when the caller has already destroyed both; the   *)
(* copy it reads is the continuation the frame had at its final suspend    *)
(* point.                                                                  *)
(***************************************************************************)
AfterNotify(th) == threads[th].susp = "continuation"

C33_LocalCopyOnly ==
  /\ [](\A th \in DOMAIN threads :
          (AfterNotify(th) /\ threads[th].lsync # 0) =>
            /\ syncs[threads[th].lsync].notified = 1
            /\ SyncFrame(threads[th].lsync) # 0
            /\ threads[th].lcont = frames[SyncFrame(threads[th].lsync)].continuation)
  /\ [][\A th \in DOMAIN threads :
          (AfterNotify(th) /\ ~AfterNotify(th)') =>
            /\ syncs' = syncs
            /\ \A f \in DOMAIN frames :
                 frames[f].kind = "sync" => frames'[f] = frames[f]
            /\ ub' = ub
            /\ ub = {}]_vars

(* a worker has released the semaphore and has yet to return the           *)
(* continuation; main has already left sync_await: the synchronized task's *)
(* frame is destroyed and the sync object is gone                          *)
C33_Witness ==
  \E th \in DOMAIN threads :
    /\ AfterNotify(th)
    /\ threads[th].kind = "worker"
    /\ threads[th].lsync # 0
    /\ ~syncs[threads[th].lsync].alive
    /\ frames[SyncFrame(threads[th].lsync)].st = "destroyed"
    /\ ub = {}

(***************************************************************************)
(* C34: with threads that are scheduled, every call of sync_await returns  *)
(* or throws: from the construction of the synchronized task main gets to  *)
(* the statement after sync_await (the output of the result, the handler,  *)
(* or the end of test).  No wake-up is lost: the semaphore count is 0 or   *)
(* 1, each sync is notified at most once, and a notification that came     *)
(* before acquire() is still there when main gets to acquire().  When the  *)
(* awaited task is already done nothing is offloaded: no worker takes part *)
(* while main is in start(), and when start() has returned the count is 1, *)
(* so acquire() does not block.                                            *)
(***************************************************************************)
(* The sync_await main is in awaits a task that was done before it began:  *)
(* an earlier synchronized task has awaited the same task.                 *)
AwaitedBefore ==
  /\ mainv.t # 0
  /\ mainv.sync_task # 0
  /\ \E f \in DOMAIN frames :
       /\ frames[f].kind = "sync"
       /\ frames[f].arg = mainv.t
       /\ f # mainv.sync_task

(* Worker th has nothing left to do with the sync_await main is in: its   *)
(* lambda has made its resume() call, it is inside no frame, and at most   *)
(* it still returns from the final awaiter of an earlier synchronized task *)
Idle(th) ==
  /\ threads[th].stack = <<>>
  /\ threads[th].pc = "done"
  /\ threads[th].susp \in {"", "continuation"}
  /\ threads[th].lsync # mainv.work_done

C34_SyncAwaitReturns ==
  /\ (threads[1].pc = "make_synchronized_task")
       ~> (threads[1].pc \in {"print", "catch", "end_test"})
  /\ [](\A s \in DOMAIN syncs :
          /\ syncs[s].sem \in {0, 1}
          /\ syncs[s].notified \in {0, 1})
  /\ []((threads[1].pc = "acquire" /\ mainv.work_done # 0) =>
          syncs[mainv.work_done].sem = syncs[mainv.work_done].notified)
  /\ []((threads[1].pc \in {"start", "acquire"} /\ AwaitedBefore) =>
          /\ \A th \in DOMAIN threads : th # 1 => Idle(th)
          /\ (ThreadCode(1) /\ threads[1].pc = "acquire") =>
               syncs[mainv.work_done].sem = 1)

(* the second sync_await of the same task: acquire() has returned, the     *)
(* only notification was made by main itself, inside start()               *)
C34_Witness ==
  /\ AwaitedBefore
  /\ threads[1].pc = "get"
  /\ syncs[mainv.work_done].notified = 1
  /\ syncs[mainv.work_done].sem = 0
  /\ \A a \in DOMAIN asyncs : ~asyncs[a].alive

(***************************************************************************)
(* C35: co_await on a task that is already done does not suspend the       *)
(* awaiting coroutine: the step that evaluates the co_await leaves the     *)
(* awaiting frame running, ready to call await_resume, and leaves the done *)
(* frame as it is (still done, same continuation, not resumed: no          *)
(* await_suspend).  await_resume then reads the outcome stored in the done *)
(* task's cell, which it leaves in place: the value is bound by reference  *)
(* to that cell, a stored exception is the one rethrown.  A done frame is  *)
(* never resumed and its continuation never changes.                       *)
(***************************************************************************)
(* Frame f is about to evaluate co_await on the done task it was given *)
AtAwaitOfDone(f) ==
  /\ frames[f].st = "running"
  /\ frames[f].phase = "exec"
  /\ Instr(f).op = "await_lvalue"
  /\ frames[frames[f].arg].st = "done"

(* Frame f is about to call await_resume on the done task it was given *)
AtResumeOfDone(f) ==
  /\ frames[f].st = "running"
  /\ frames[f].phase = "resumed"
  /\ frames[f].resumes = 1
  /\ Instr(f).op = "await_lvalue"
  /\ frames[frames[f].arg].st = "done"

AwaitDoneStep ==
  /\ \A f \in DOMAIN frames :
       (AtAwaitOfDone(f) /\ frames'[f] # frames[f]) =>
         /\ frames'[f].st = "running"
         /\ frames'[f].phase = "resumed"
         /\ frames'[f].resumes = frames[f].resumes
         /\ frames'[frames[f].arg] = frames[frames[f].arg]
         /\ threads' = threads
         /\ ub' = ub
  /\ \A f \in DOMAIN frames :
       (AtResumeOfDone(f) /\ frames'[f] # frames[f]) =>
         LET t == frames[f].arg
         IN /\ frames'[t] = frames[t]
            /\ IF frames[t].cell.tag = "exception"
                 THEN frames'[f].thr = frames[t].cell.val
                 ELSE frames'[f].thr = 0
            /\ (frames[t].cell.tag = "value") =>
                 (frames'[f].resultSet /\ frames'[f].result = t)
            /\ ub' = ub
  /\ \A t \in DOMAIN frames :
       frames[t].st = "done" =>
         /\ frames'[t].resumes = frames[t].resumes
         /\ frames'[t].continuation = frames[t].continuation
         /\ frames'[t].st \in {"done", "destroyed"}

C35_AwaitDone == [][AwaitDoneStep]_vars

(* a synchronized task that awaited an already done task is over: it was   *)
(* resumed once (by start), and the done task still has the continuation   *)
(* the first synchronized task gave it                                     *)
C35_Witness ==
  \E f \in DOMAIN frames :
    /\ frames[f].kind = "sync"
    /\ frames[f].st = "done"
    /\ frames[f].resumes = 1
    /\ frames[f].arg # 0
    /\ frames[frames[f].arg].st = "done"
    /\ frames[frames[f].arg].continuation # f
    /\ frames[frames[f].arg].continuation # 0
    /\ ub = {}

(***************************************************************************)
(* C36: sync_await on the task lvalue t neither destroys nor consumes t:   *)
(* once sync_await has been left (the synchronized task is destroyed) and  *)
(* until test ends, the frame of t is done and not destroyed, and its cell *)
(* still holds the outcome its body ended with, written once; when         *)
(* sync_await returned a value, the reference it returned designates the   *)
(* cell of t itself, not the cell of the destroyed synchronized task, and  *)
(* the value test streams is the one in the cell of t.                     *)
(***************************************************************************)
AfterSyncAwait ==
  /\ threads[1].pc \in {"print", "catch", "end_test"}
  /\ mainv.t # 0

C36_TaskNotConsumed ==
  /\ [](AfterSyncAwait =>
          LET t == frames[mainv.t]
          IN /\ t.st = "done"
             /\ t.destroyed = 0
             /\ t.completed = "return_value" =>
                  (t.cell.tag = "value" /\ t.writes = 1)
             /\ t.completed = "unhandled_exception" =>
                  (t.cell.tag = "exception" /\ mainv.exc = t.cell.val)
             /\ t.completed = "return_void" => t.cell = Monostate
             /\ \A f \in DOMAIN frames :
                  (frames[f].kind = "sync" /\ frames[f].arg = mainv.t)
                    => frames[f].st = "destroyed"
             /\ threads[1].pc = "print" =>
                  (mainv.ref = mainv.t /\ t.cell.tag = "value"))
  /\ [][(threads[1].pc = "print" /\ threads'[1].pc # "print") =>
          /\ out'[Len(out')].val = frames[mainv.t].cell.val
          /\ ub' = ub]_vars

(* sync_await(t) on func1's task has returned and its synchronized task is *)
(* destroyed; the reference designates func1's cell, which holds 65        *)
C36_Witness ==
  /\ threads[1].pc = "print"
  /\ mainv.t # 0
  /\ frames[mainv.t].fn = "func1"
  /\ mainv.ref = mainv.t
  /\ frames[mainv.t].cell = [tag |-> "value", val |-> 65]
  /\ frames[mainv.t].st = "done"
  /\ mainv.sync_task = 0

(***************************************************************************)
(* C37: a coroutine that returns std::future<int> behaves like the         *)
(* hand-written promise/future function: when the call has returned, the   *)
(* whole body has run, no exception has left the call, and the future is   *)
(* valid and ready, holding the co_returned value or the exception the     *)
(* body threw; get() yields that value (42 for foo()) or rethrows that     *)
(* exception; and at the same point (returned, or after get()) the         *)
(* coroutine and the reference have the same shared state, the same        *)
(* validity and the same result of get().                                  *)
(***************************************************************************)
Outcome(body) ==
  IF body.end = "return" THEN [kind |-> "value", val |-> body.v]
  ELSE [kind |-> "rethrow", val |-> body.v]

C37_FutureCoroutine ==
  LET co == mainv.run["coroutine"]
      ref == mainv.run["reference"]
  IN /\ co.pc # "escaped"
     /\ co.escaped = 0
     /\ co.pc = "returned" =>
          /\ co.stmts = mainv.body.n
          /\ co.valid
          /\ co.state = IF mainv.body.end = "return"
                          THEN set_value(Monostate, mainv.body.v)
                          ELSE set_exception(Monostate, mainv.body.v)
     /\ co.pc = "got" =>
          /\ co.got = Outcome(mainv.body)
          /\ mainv.body = foo => co.got = [kind |-> "value", val |-> 42]
     /\ (co.pc = ref.pc /\ co.pc \in {"returned", "got"}) =>
          /\ co.state = ref.state
          /\ co.valid = ref.valid
          /\ co.got = ref.got
          /\ co.stmts = ref.stmts

(* foo().get() has returned 42 from the coroutine and from the reference *)
C37_Witness ==
  /\ mainv.body = foo
  /\ mainv.run["coroutine"].pc = "got"
  /\ mainv.run["reference"].pc = "got"
  /\ mainv.run["coroutine"].got = [kind |-> "value", val |-> 42]
  /\ mainv.run["reference"].got = [kind |-> "value", val |-> 42]

(* the body threw exception 1 after two statements; get() has rethrown it  *)
(* from the coroutine's future                                             *)
C37_WitnessThrow ==
  /\ mainv.body = [n |-> 2, end |-> "throw", v |-> 1]
  /\ mainv.run["coroutine"].pc = "got"
  /\ mainv.run["coroutine"].got = [kind |-> "rethrow", val |-> 1]

====
